---- MODULE Spec2Model ----
(***************************************************************************)
(* Model of the deribit_arb options-arbitrage engine: the option chain     *)
(* store (chain/mod.rs), the fee engine (fees/mod.rs), the detector suite  *)
(* (detect/mod.rs) and the risk gate (risk/mod.rs).                        *)
(*                                                                         *)
(* Decimal values are fixed-point integers:                                *)
(*   amounts and sizes   in units of 1/SizeDen contract                    *)
(*   option prices       in units of 1/PriceDen (of the native currency)   *)
(*   money (native, USD) in units of 1/MoneyDen                            *)
(*   notional_usd        in units of 1/SizeDen USD                         *)
(*   index, strike, max_ticket_usd, min_edge_usd are whole numbers.        *)
(* The inputs are chosen so that every product and quotient the code       *)
(* computes is exact on these grids.                                       *)
(* Not modelled: the f64 fields (ivs, edge_bps), quote timestamps,         *)
(* net_edge_native and max_payout (informational quotients).               *)
(***************************************************************************)
EXTENDS Integers, Sequences, FiniteSets, TLC

VARIABLES
    \* ---- detector scan (detect/mod.rs) ----
    scan_input,      \* the snapshot vector handed to DetectorSuite::scan
    config,          \* the AppConfig
    utc_now,         \* Utc::now() during the scan, in days
    opportunities,   \* the vector returned by scan
    phase,           \* "ready" before scan has run, "scanned" after
    previous,        \* None, or Some(what the run of scan before this one returned)
    \* ---- risk gate (risk/mod.rs) ----
    risk_state,      \* RiskState: live_combos, ewma_pnl
    risk_mutex,      \* Some(thread holding the parking_lot::Mutex), or None
    rthreads,        \* per thread: position inside approve/release/record_pnl
    \* ---- option chain store (chain/mod.rs) ----
    inner,           \* HashMap<String, InstrumentSnapshot>
    rwlock,          \* RwLock: [writer, readers]
    cthreads,        \* per thread: position inside a chain operation
    chist,           \* history of completed calls, used to state the claims
    \* ---- fee engine (fees/mod.rs) ----
    fee_ctx,         \* the FeeComputationContext handed to FeeEngine::compute
    fee_result,      \* None before compute has run, Some(its Result) after
    \* ---- execution planner (exec/mod.rs) ----
    planner,         \* the call of ExecutionPlanner::plan: opportunity, position, locals
    venue,           \* the ComboApi behind the planner: its combos and the calls it got
    \* ---- main (main.rs) ----
    main             \* main's position and locals

scan_vars  == <<scan_input, config, utc_now, opportunities, phase, previous>>
risk_vars  == <<risk_state, risk_mutex, rthreads>>
chain_vars == <<inner, rwlock, cthreads, chist>>
fee_vars   == <<fee_ctx, fee_result>>
exec_vars  == <<planner, venue>>
vars == <<scan_input, config, utc_now, opportunities, phase, previous,
          risk_state, risk_mutex, rthreads,
          inner, rwlock, cthreads, chist,
          fee_ctx, fee_result, planner, venue, main>>

----------------------------------------------------------------------------
(* Fixed-point grids *)

SizeDen  == 1 + 1            \* sizes in half contracts (bid_mid.amount / 2)
PriceDen == 10 * 10 * 10     \* prices in thousandths
MoneyDen == 80 * PriceDen    \* money in 1/80000
PerContract == MoneyDen \div SizeDen   \* money units of 1.0 per contract, per size unit

Min(a, b) == IF a <= b THEN a ELSE b
Max(a, b) == IF a >= b THEN a ELSE b
Abs(a)    == IF a < 0 THEN -a ELSE a

\* Option<T> is a sequence of length 0 (None) or 1 (Some)
None      == <<>>
Some(x)   == <<x>>
IsSome(o) == Len(o) = 1
Unwrap(o) == o[1]

RECURSIVE SumSeq(_)
SumSeq(s) == IF s = <<>> THEN 0 ELSE Head(s) + SumSeq(Tail(s))

RECURSIVE Concat(_)
Concat(ss) == IF ss = <<>> THEN <<>> ELSE Head(ss) \o Concat(Tail(ss))

----------------------------------------------------------------------------
(* Fee engine: fees/mod.rs *)

TradeFeeRateE4 == 3      \* dec!(0.0003)  = 3 / 10^4
FeeCapDen      == 8      \* dec!(0.125)   = 1 / 8
DeliveryRateE5 == 15     \* dec!(0.00015) = 15 / 10^5

\* option_price * dec!(0.125), per contract
CapOfPrice(option_price) == (option_price * PerContract) \div (PriceDen * FeeCapDen)

\* mutant: the comparison the other way round
Greater(a, b) == IF a < b THEN b ELSE a

\* `if a < b { a } else { b }`
Lesser(a, b) == IF a < b THEN a ELSE b

LegFee(input, fee_native, fee_usd) ==
    [instrument_name |-> input.instrument_name, side |-> input.side,
     settlement |-> input.settlement, execution_role |-> input.role,
     trade_fee_native |-> fee_native, trade_fee_usd |-> fee_usd]

\* per_contract_fee * contracts * input.contract_size
TotalNative(input, per_contract_fee) ==
    per_contract_fee * Abs(input.contracts) * input.contract_size

\* SettlementCurrency::Coin: total_usd = total_native * index_price
CoinLegFee(input, total_native) ==
    LegFee(input, total_native, total_native * input.index_price)

compute_trade_fee(input) ==
    IF Abs(input.contracts) = 0 THEN LegFee(input, 0, 0)
    ELSE IF input.settlement = "Coin"
    THEN CoinLegFee(input,
            TotalNative(input, Lesser(TradeFeeRateE4 * (PerContract \div 10000),
                                      CapOfPrice(input.option_price))))
    ELSE LegFee(input,
            TotalNative(input, Lesser(input.index_price * TradeFeeRateE4
                                        * (PerContract \div 10000),
                                      CapOfPrice(input.option_price))),
            TotalNative(input, Lesser(input.index_price * TradeFeeRateE4
                                        * (PerContract \div 10000),
                                      CapOfPrice(input.option_price))))

SideTotal(leg_fees, side, field) ==
    SumSeq([k \in 1..Len(leg_fees) |->
              IF leg_fees[k].side = side THEN leg_fees[k][field] ELSE 0])

\* mutant: the USD fee of a waived leg is left in place
WaiveNativeOnly(leg_fees, side) ==
    [k \in 1..Len(leg_fees) |->
        IF leg_fees[k].side = side
        THEN [leg_fees[k] EXCEPT !.trade_fee_native = 0]
        ELSE leg_fees[k]]

Waive(leg_fees, side) ==
    [k \in 1..Len(leg_fees) |->
        IF leg_fees[k].side = side
        THEN [leg_fees[k] EXCEPT !.trade_fee_native = 0, !.trade_fee_usd = 0]
        ELSE leg_fees[k]]

\* mutant: a tie waives the Sell side
WaivedSideStrict(buy_total_usd, sell_total_usd) ==
    IF buy_total_usd < sell_total_usd THEN "Buy" ELSE "Sell"

\* the side whose fees are waived by the combo discount
WaivedSide(buy_total_usd, sell_total_usd) ==
    IF buy_total_usd <= sell_total_usd THEN "Buy" ELSE "Sell"

\* delivery_fee_native of a leg whose delivery_fee_usd is given
DeliveryNative(leg, delivery_fee_usd) ==
    [usd |-> delivery_fee_usd,
     native |-> IF leg.settlement = "Usdc" THEN delivery_fee_usd
                ELSE IF leg.index_price = 0 THEN 0
                ELSE delivery_fee_usd \div leg.index_price]

\* (notional_usd * dec!(0.00015)).min(option_value_usd * dec!(0.125))
DeliveryOfLeg(leg) ==
    DeliveryNative(leg,
        Min(leg.index_price * Abs(leg.contracts) * leg.contract_size
              * ((DeliveryRateE5 * PerContract) \div 100000),
            CapOfPrice(leg.option_price) * Abs(leg.contracts) * leg.contract_size
              * (IF leg.settlement = "Usdc" THEN 1 ELSE leg.index_price)))

\* mutant: daily legs are charged like the others
DeliveriesOfDailies(ctx) ==
    [k \in 1..Len(ctx.legs) |->
        IF ctx.hold_to_expiry
        THEN DeliveryOfLeg(ctx.legs[k])
        ELSE [usd |-> 0, native |-> 0]]

\* the delivery fee of every leg; nothing for a daily, nothing unless held to expiry
Deliveries(ctx) ==
    [k \in 1..Len(ctx.legs) |->
        IF ctx.hold_to_expiry /\ ~ctx.legs[k].is_daily
        THEN DeliveryOfLeg(ctx.legs[k])
        ELSE [usd |-> 0, native |-> 0]]

\* Ok(FeeBreakdown { .. })
Breakdown(leg_fees, combo_discount, combo_discount_usd, delivery_native, delivery_usd) ==
    [ok |-> TRUE,
     legs |-> leg_fees,
     combo_discount |-> combo_discount,
     combo_discount_usd |-> combo_discount_usd,
     delivery_fee |-> delivery_native,
     delivery_fee_usd |-> delivery_usd,
     total_native |-> SumSeq([k \in 1..Len(leg_fees) |-> leg_fees[k].trade_fee_native])
                        + delivery_native,
     total_usd |-> SumSeq([k \in 1..Len(leg_fees) |-> leg_fees[k].trade_fee_usd])
                        + delivery_usd]

\* the combo discount waives the fees of side `waived`
Discounted(computed, waived, deliveries) ==
    Breakdown(Waive(computed, waived),
              SideTotal(computed, waived, "trade_fee_native"),
              SideTotal(computed, waived, "trade_fee_usd"),
              SumSeq([k \in 1..Len(deliveries) |-> deliveries[k].native]),
              SumSeq([k \in 1..Len(deliveries) |-> deliveries[k].usd]))

\* computed: the fee of every leg before the discount
Totalled(ctx, computed) ==
    Discounted(computed,
               WaivedSide(SideTotal(computed, "Buy", "trade_fee_usd"),
                          SideTotal(computed, "Sell", "trade_fee_usd")),
               Deliveries(ctx))

\* ctx.legs.iter().map(|leg| compute_trade_fee(leg)).collect()
TradeFees(ctx) == [k \in 1..Len(ctx.legs) |-> compute_trade_fee(ctx.legs[k])]

\* mutant: the context is not validated
compute_unchecked(ctx) == Totalled(ctx, TradeFees(ctx))

\* FeeEngine::compute: [ok |-> FALSE] is the Err result
compute(ctx) ==
    IF Len(ctx.legs) = 0 THEN [ok |-> FALSE]
    ELSE IF \E k \in 1..Len(ctx.legs) : ctx.legs[k].settlement # ctx.legs[1].settlement
    THEN [ok |-> FALSE]
    ELSE Totalled(ctx, TradeFees(ctx))

----------------------------------------------------------------------------
(* Detector suite: detect/mod.rs *)

RatioDen == 1 + 1    \* config.min_edge_ratio is held as a multiple of 1/RatioDen

\* names that contain the substring "-D"
DailyNames == {"BTC_USDC-E30-100-C-D"}

\* expiry and now are whole days; Duration::days(1) is one unit
is_daily_option(name, expiry, now) ==
    IF name \in DailyNames THEN TRUE ELSE expiry - now <= 1

\* Vec::sort_by is a stable sort; pairs are <<key, value>>, ascending by key
RECURSIVE InsertPair(_, _)
InsertPair(s, x) ==
    IF s = <<>> THEN <<x>>
    ELSE IF Head(s)[1] <= x[1] THEN <<Head(s)>> \o InsertPair(Tail(s), x)
    ELSE <<x>> \o s

RECURSIVE StableSort(_)
StableSort(s) ==
    IF s = <<>> THEN <<>>
    ELSE InsertPair(StableSort(SubSeq(s, 1, Len(s) - 1)), s[Len(s)])

Values(pairs) == [k \in 1..Len(pairs) |-> pairs[k][2]]

SortByStrike(insts) ==
    Values(StableSort([k \in 1..Len(insts) |-> <<insts[k].instrument.strike, insts[k]>>]))

SortByExpiry(insts) ==
    Values(StableSort([k \in 1..Len(insts) |-> <<insts[k].instrument.expiry, insts[k]>>]))

\* mutant: the comparison the wrong way round, a.net_edge_usd.cmp(&b.net_edge_usd)
SortByEdgeAsc(opps) ==
    Values(StableSort([k \in 1..Len(opps) |-> <<opps[k].net_edge_usd, opps[k]>>]))

\* opportunities.sort_by(|a, b| b.net_edge_usd.cmp(&a.net_edge_usd))
SortByEdgeDesc(opps) ==
    Values(StableSort([k \in 1..Len(opps) |-> <<-(opps[k].net_edge_usd), opps[k]>>]))

\* all enumerations of a finite set: the orders a HashMap may iterate in
Orders(S) ==
    {o \in [1..Cardinality(S) -> S] : \A a, b \in 1..Cardinality(S) : a # b => o[a] # o[b]}

MinDepth(cfg) == cfg.min_depth_contracts * SizeDen   \* Decimal::from(min_depth_contracts)

\* mutant: no depth gate, any level is taken
GateOpen(level, cfg) == level

\* mutant: the depth gate with > for >=
GateStrict(level, cfg) ==
    IF IsSome(level) /\ Unwrap(level).amount > MinDepth(cfg) THEN level ELSE None

\* Some(level) if level.amount >= min_depth
Gate(level, cfg) ==
    IF IsSome(level) /\ Unwrap(level).amount >= MinDepth(cfg) THEN level ELSE None

\* Decimal / Decimal: the quotient is rounded to the nearest value a Decimal
\* holds (here: the nearest size unit), a tie to the even one
DecimalDiv(a, b) ==
    IF 2 * (a % b) > b \/ (2 * (a % b) = b /\ (a \div b) % 2 = 1)
    THEN (a \div b) + 1
    ELSE a \div b

max_contracts_from_ticket(cfg, inst) ==
    LET index_price == inst.quote.index_price
        notional_per_contract == index_price * inst.instrument.contract_size
        ask == inst.quote.best_ask
        bid == inst.quote.best_bid
        \* Option::max: None < Some(_)
        available ==
            IF IsSome(ask) /\ IsSome(bid) THEN Max(Unwrap(ask).amount, Unwrap(bid).amount)
            ELSE IF IsSome(ask) THEN Unwrap(ask).amount
            ELSE IF IsSome(bid) THEN Unwrap(bid).amount
            ELSE MinDepth(cfg)
        \* ticket_cap / notional_per_contract
        cap == DecimalDiv(cfg.max_ticket_usd * SizeDen, notional_per_contract)
    IN  IF index_price = 0 THEN MinDepth(cfg)
        ELSE IF notional_per_contract = 0 THEN MinDepth(cfg)
        ELSE Max(Min(cap, available), 0)

\* price * size_contracts * contract_size, as money
Cost(price, size_contracts, contract_size) ==
    price * size_contracts * contract_size * (MoneyDen \div (PriceDen * SizeDen))

\* strikes_diff * size_contracts * contract_size, as money
Payout(strikes_diff, size_contracts, contract_size) ==
    strikes_diff * size_contracts * contract_size * PerContract

ToUsd(native, settlement, reference_index) ==
    IF settlement = "Usdc" THEN native ELSE native * reference_index

LegInput(inst, side, settlement, level, contracts, now) ==
    [instrument_name |-> inst.instrument.instrument_name,
     side |-> side,
     settlement |-> settlement,
     role |-> "Taker",
     option_price |-> level.price,
     index_price |-> inst.quote.index_price,
     contracts |-> contracts,
     contract_size |-> inst.instrument.contract_size,
     expiry |-> inst.instrument.expiry,
     is_daily |-> is_daily_option(inst.instrument.instrument_name,
                                  inst.instrument.expiry, now)]

Leg(inst, ratio, side) ==
    [instrument_name |-> inst.instrument.instrument_name, ratio |-> ratio, side |-> side]

Touch(inst, side, level, size_contracts) ==
    [instrument_name |-> inst.instrument.instrument_name, side |-> side,
     price |-> level.price, size_contracts |-> size_contracts]

\* mutant: the test against min_edge_usd left out
EdgeUsdPositiveOnly(cfg, net_edge_usd) ==
    ~(net_edge_usd <= 0)

\* net_edge_usd <= 0 and net_edge_usd < min_edge_usd both skip
EdgeUsdOk(cfg, net_edge_usd) ==
    /\ ~(net_edge_usd <= 0)
    /\ ~(net_edge_usd < cfg.min_edge_usd * MoneyDen)

\* edge_ratio = net_edge_usd / max(total_usd, 0.01); skip if edge_ratio < min_edge_ratio
EdgeRatioOk(cfg, net_edge_usd, total_usd) ==
    LET fee_guard == Max(total_usd, MoneyDen \div 100)
    IN  ~(net_edge_usd * RatioDen < cfg.min_edge_ratio * fee_guard)

\* the edge filter of detect_verticals, detect_butterflies, detect_calendars
\* and detect_jelly_rolls
EdgeFilter(cfg, net_edge_usd, total_usd) ==
    EdgeUsdOk(cfg, net_edge_usd) /\ EdgeRatioOk(cfg, net_edge_usd, total_usd)

\* the edge filter of detect_boxes: no ratio test
BoxEdgeFilter(cfg, net_edge_usd, total_usd) ==
    EdgeUsdOk(cfg, net_edge_usd)

Opportunity(cfg, strategy, currency, settlement, expiry, strikes, legs, touches, total_cost, fee_breakdown, net_edge_usd, base, size_contracts, price_limit) ==
    [strategy |-> strategy,
     currency |-> currency,
     settlement |-> settlement,
     expiry |-> expiry,
     strikes |-> strikes,
     legs |-> legs,
     touches |-> touches,
     total_cost |-> total_cost,
     fee_breakdown |-> fee_breakdown,
     net_edge_usd |-> net_edge_usd,
     notional_usd |-> base.quote.index_price * size_contracts * base.instrument.contract_size,
     reference_index |-> base.quote.index_price,
     size_contracts |-> size_contracts,
     execution_plan |-> [combo_id |-> None, tif |-> "IOC",
                         price_limit |-> price_limit, dry_run |-> cfg.dry_run]]

\* outcome of one loop iteration: `continue`, a pushed opportunity, or `?` on Err
Skip    == [ok |-> TRUE, out |-> <<>>]
Emit(o) == [ok |-> TRUE, out |-> <<o>>]
Fail    == [ok |-> FALSE, out |-> <<>>]

\* a detector returns Err if some iteration fails, Ok(results) otherwise
Collect(iterations) ==
    IF \E k \in 1..Len(iterations) : ~iterations[k].ok THEN Fail
    ELSE [ok |-> TRUE, out |-> Concat([k \in 1..Len(iterations) |-> iterations[k].out])]

----------------------------------------------------------------------------
(* detect_verticals: one iteration of `for window in by_strike.windows(2)` *)

\* mutant: the test of the debit's sign left out
DebitNegativeIgnored(debit_native) == FALSE

\* if debit_native < Decimal::ZERO { continue; }
DebitNegative(debit_native) == debit_native < 0

VerticalEdge(v) ==
    LET debit_usd == ToUsd(v.debit_native, v.settlement, v.buy_inst.quote.index_price)
        strikes_diff == v.high.instrument.strike - v.low.instrument.strike
        max_payout_usd ==
            Payout(strikes_diff, v.size_contracts, v.low.instrument.contract_size)
        \* Decimal::new(1, 6): below the resolution of the money grid
        tolerance_usd == MoneyDen \div 1000000
        net_edge_usd == max_payout_usd - debit_usd - v.fee_breakdown.total_usd
    IN  IF DebitNegative(v.debit_native) THEN Skip
        ELSE IF strikes_diff <= 0 THEN Skip
        ELSE IF debit_usd > max_payout_usd + tolerance_usd THEN Skip
        ELSE IF ~v.fee_breakdown.ok THEN Fail
        ELSE IF ~EdgeFilter(v.cfg, net_edge_usd, v.fee_breakdown.total_usd) THEN Skip
        ELSE Emit(Opportunity(v.cfg, "Vertical", v.currency, v.settlement, <<v.expiry>>,
                    <<v.low.instrument.strike, v.high.instrument.strike>>,
                    <<Leg(v.buy_inst, 1, "Buy"), Leg(v.sell_inst, 1, "Sell")>>,
                    <<Touch(v.buy_inst, "Buy", v.buy_quote, v.size_contracts),
                      Touch(v.sell_inst, "Sell", v.sell_quote, v.size_contracts)>>,
                    v.debit_native, v.fee_breakdown, net_edge_usd, v.buy_inst,
                    v.size_contracts, v.debit_native))

VerticalFees(v) ==
    IF v.size_contracts <= 0 THEN Skip
    ELSE VerticalEdge(v @@
           [debit_native |->
                Cost(v.buy_quote.price, v.size_contracts,
                     v.buy_inst.instrument.contract_size)
                  - Cost(v.sell_quote.price, v.size_contracts,
                         v.sell_inst.instrument.contract_size),
            fee_breakdown |->
                compute([legs |-> <<LegInput(v.buy_inst, "Buy", v.settlement, v.buy_quote,
                                             v.size_contracts, v.now),
                                    LegInput(v.sell_inst, "Sell", v.settlement,
                                             v.sell_quote, v.size_contracts, v.now)>>,
                         hold_to_expiry |-> v.cfg.hold_to_expiry])])

VerticalSize(v) ==
    IF ~IsSome(v.buy_opt) \/ ~IsSome(v.sell_opt) THEN Skip
    ELSE VerticalFees(v @@
           [buy_quote |-> Unwrap(v.buy_opt),
            sell_quote |-> Unwrap(v.sell_opt),
            size_contracts |->
                Min(Min(Unwrap(v.buy_opt).amount, Unwrap(v.sell_opt).amount),
                    max_contracts_from_ticket(v.cfg, v.buy_inst))])

VerticalQuotes(v) ==
    VerticalSize(v @@ [buy_opt  |-> Gate(v.buy_inst.quote.best_ask, v.cfg),
                       sell_opt |-> Gate(v.sell_inst.quote.best_bid, v.cfg)])

VerticalWindow(cfg, now, low, high, currency, settlement, expiry) ==
    IF low.instrument.option_kind # high.instrument.option_kind THEN Skip
    ELSE VerticalQuotes(
           [cfg |-> cfg, now |-> now, low |-> low, high |-> high,
            currency |-> currency, settlement |-> settlement, expiry |-> expiry,
            buy_inst  |-> IF low.instrument.option_kind = "Call" THEN low ELSE high,
            sell_inst |-> IF low.instrument.option_kind = "Call" THEN high ELSE low])

detect_verticals(cfg, now, instruments, currency, settlement, expiry) ==
    LET by_strike == SortByStrike(instruments)
    IN  Collect([w \in 1..(Len(by_strike) - 1) |->
                   VerticalWindow(cfg, now, by_strike[w], by_strike[w + 1],
                                  currency, settlement, expiry)])

(* detect_butterflies: one iteration of `for window in by_strike.windows(3)` *)

ButterflyEdge(v) ==
    LET debit_usd == ToUsd(v.debit_native, v.settlement, v.low.quote.index_price)
        net_edge_usd == -(debit_usd + v.fee_breakdown.total_usd)
    IN  IF ~v.fee_breakdown.ok THEN Fail
        ELSE IF ~EdgeFilter(v.cfg, net_edge_usd, v.fee_breakdown.total_usd) THEN Skip
        ELSE Emit(Opportunity(v.cfg, "Butterfly", v.currency, v.settlement, <<v.expiry>>,
                    <<v.low.instrument.strike, v.mid.instrument.strike,
                      v.high.instrument.strike>>,
                    <<Leg(v.low, 1, "Buy"), Leg(v.mid, 2, "Sell"), Leg(v.high, 1, "Buy")>>,
                    <<Touch(v.low, "Buy", v.ask_low, v.size_contracts),
                      Touch(v.mid, "Sell", v.bid_mid, v.size_contracts * 2),
                      Touch(v.high, "Buy", v.ask_high, v.size_contracts)>>,
                    v.debit_native, v.fee_breakdown, net_edge_usd, v.low,
                    v.size_contracts, v.debit_native))

ButterflyFees(v) ==
    IF v.size_contracts <= 0 THEN Skip
    ELSE ButterflyEdge(v @@
           [debit_native |->
                \* fly_cost * size_contracts * contract_size
                Cost(v.ask_low.price + v.ask_high.price - (v.bid_mid.price * 2),
                     v.size_contracts, v.low.instrument.contract_size),
            fee_breakdown |->
                compute([legs |-> <<LegInput(v.low, "Buy", v.settlement, v.ask_low,
                                             v.size_contracts, v.now),
                                    LegInput(v.mid, "Sell", v.settlement, v.bid_mid,
                                             v.size_contracts * 2, v.now),
                                    LegInput(v.high, "Buy", v.settlement, v.ask_high,
                                             v.size_contracts, v.now)>>,
                         hold_to_expiry |-> v.cfg.hold_to_expiry])])

ButterflySize(v) ==
    IF ~IsSome(v.ask_low_opt) \/ ~IsSome(v.bid_mid_opt) \/ ~IsSome(v.ask_high_opt) THEN Skip
    ELSE ButterflyFees(v @@
           [ask_low  |-> Unwrap(v.ask_low_opt),
            bid_mid  |-> Unwrap(v.bid_mid_opt),
            ask_high |-> Unwrap(v.ask_high_opt),
            size_contracts |->
                Min(Min(Min(Unwrap(v.ask_low_opt).amount, Unwrap(v.ask_high_opt).amount),
                        Unwrap(v.bid_mid_opt).amount \div 2),
                    max_contracts_from_ticket(v.cfg, v.low))])

ButterflyWindow(cfg, now, low, mid, high, currency, settlement, expiry) ==
    ButterflySize(
        [cfg |-> cfg, now |-> now, low |-> low, mid |-> mid, high |-> high,
         currency |-> currency, settlement |-> settlement, expiry |-> expiry,
         ask_low_opt  |-> Gate(low.quote.best_ask, cfg),
         bid_mid_opt  |-> Gate(mid.quote.best_bid, cfg),
         ask_high_opt |-> Gate(high.quote.best_ask, cfg)])

detect_butterflies(cfg, now, instruments, currency, settlement, expiry) ==
    LET by_strike == SortByStrike(instruments)
    IN  Collect([w \in 1..(Len(by_strike) - 2) |->
                   ButterflyWindow(cfg, now, by_strike[w], by_strike[w + 1],
                                   by_strike[w + 2], currency, settlement, expiry)])

(* detect_calendars: one iteration of `for window in by_expiry.windows(2)` *)

CalendarEdge(v) ==
    LET credit_usd == ToUsd(v.credit_native, v.settlement, v.near.quote.index_price)
        net_edge_usd == credit_usd - v.fee_breakdown.total_usd
    IN  IF credit_usd <= 0 THEN Skip
        ELSE IF ~v.fee_breakdown.ok THEN Fail
        ELSE IF ~EdgeFilter(v.cfg, net_edge_usd, v.fee_breakdown.total_usd) THEN Skip
        ELSE Emit(Opportunity(v.cfg, "Calendar", v.currency, v.settlement,
                    <<v.near.instrument.expiry, v.far.instrument.expiry>>,
                    <<v.near.instrument.strike>>,
                    <<Leg(v.near, 1, "Sell"), Leg(v.far, 1, "Buy")>>,
                    <<Touch(v.near, "Sell", v.near_bid, v.size_contracts),
                      Touch(v.far, "Buy", v.far_ask, v.size_contracts)>>,
                    v.credit_native, v.fee_breakdown, net_edge_usd, v.near,
                    v.size_contracts, v.credit_native))

CalendarFees(v) ==
    IF v.size_contracts <= 0 THEN Skip
    ELSE CalendarEdge(v @@
           [credit_native |->
                Cost(v.near_bid.price, v.size_contracts, v.near.instrument.contract_size)
                  - Cost(v.far_ask.price, v.size_contracts, v.far.instrument.contract_size),
            fee_breakdown |->
                compute([legs |-> <<LegInput(v.near, "Sell", v.settlement, v.near_bid,
                                             v.size_contracts, v.now),
                                    LegInput(v.far, "Buy", v.settlement, v.far_ask,
                                             v.size_contracts, v.now)>>,
                         hold_to_expiry |-> v.cfg.hold_to_expiry])])

CalendarSize(v) ==
    IF ~IsSome(v.near_bid_opt) \/ ~IsSome(v.far_ask_opt) THEN Skip
    ELSE CalendarFees(v @@
           [near_bid |-> Unwrap(v.near_bid_opt),
            far_ask  |-> Unwrap(v.far_ask_opt),
            size_contracts |->
                Min(Min(Unwrap(v.near_bid_opt).amount, Unwrap(v.far_ask_opt).amount),
                    max_contracts_from_ticket(v.cfg, v.near))])

CalendarWindow(cfg, now, near, far, currency, settlement) ==
    IF near.instrument.expiry = far.instrument.expiry THEN Skip
    ELSE CalendarSize(
           [cfg |-> cfg, now |-> now, near |-> near, far |-> far,
            currency |-> currency, settlement |-> settlement,
            near_bid_opt |-> Gate(near.quote.best_bid, cfg),
            far_ask_opt  |-> Gate(far.quote.best_ask, cfg)])

\* mutant: calls and puts grouped together
CalendarKeyAnyKind(inst) ==
    <<inst.instrument.currency, inst.instrument.strike,
      inst.instrument.settlement_currency, "Any">>

\* the groups of detect_calendars: (currency, strike, settlement, option_kind)
CalendarKey(inst) ==
    <<inst.instrument.currency, inst.instrument.strike,
      inst.instrument.settlement_currency, inst.instrument.option_kind>>

CalendarGroup(cfg, now, snapshot, key) ==
    LET instruments == SelectSeq(snapshot, LAMBDA x : CalendarKey(x) = key)
        by_expiry   == SortByExpiry(instruments)
    IN  IF Len(instruments) < 2 THEN <<>>
        ELSE IF "Calendar" \notin cfg.strategy_filter THEN <<>>
        ELSE [w \in 1..(Len(by_expiry) - 1) |->
                CalendarWindow(cfg, now, by_expiry[w], by_expiry[w + 1], key[1], key[3])]

\* order: the order in which the HashMap `grouped` is iterated
detect_calendars(cfg, now, snapshot, order) ==
    Collect(Concat([g \in 1..Len(order) |-> CalendarGroup(cfg, now, snapshot, order[g])]))

(* detect_boxes: one iteration of `for call_window in calls.windows(2)` *)

\* puts.iter().find(|p| p.instrument.strike == strike)
FindPut(puts, strike) ==
    LET hits == SelectSeq(puts, LAMBDA x : x.instrument.strike = strike)
    IN  IF hits = <<>> THEN None ELSE Some(Head(hits))

BoxEdge(v) ==
    LET fair_value ==
            Payout(v.c_high.instrument.strike - v.c_low.instrument.strike,
                   v.size_contracts, v.c_low.instrument.contract_size)
        combo_price == v.ask_call_low.price - v.bid_call_high.price
                         - v.bid_put_low.price + v.ask_put_high.price
        combo_price_usd ==
            Cost(combo_price, v.size_contracts, v.c_low.instrument.contract_size)
        net_edge_usd == fair_value - combo_price_usd - v.fee_breakdown.total_usd
    IN  IF ~v.fee_breakdown.ok THEN Fail
        ELSE IF ~BoxEdgeFilter(v.cfg, net_edge_usd, v.fee_breakdown.total_usd) THEN Skip
        ELSE Emit(Opportunity(v.cfg, "Box", v.currency, v.settlement,
                    <<v.c_low.instrument.expiry>>,
                    <<v.c_low.instrument.strike, v.c_high.instrument.strike>>,
                    <<Leg(v.c_low, 1, "Buy"), Leg(v.c_high, 1, "Sell"),
                      Leg(v.p_low, 1, "Sell"), Leg(v.p_high, 1, "Buy")>>,
                    <<Touch(v.c_low, "Buy", v.ask_call_low, v.size_contracts),
                      Touch(v.c_high, "Sell", v.bid_call_high, v.size_contracts),
                      Touch(v.p_low, "Sell", v.bid_put_low, v.size_contracts),
                      Touch(v.p_high, "Buy", v.ask_put_high, v.size_contracts)>>,
                    Cost(combo_price, v.size_contracts, 1), v.fee_breakdown,
                    net_edge_usd, v.c_low, v.size_contracts,
                    Cost(combo_price, v.size_contracts, 1)))

BoxFees(v) ==
    IF v.size_contracts <= 0 THEN Skip
    ELSE BoxEdge(v @@
           [fee_breakdown |->
                compute([legs |-> <<LegInput(v.c_low, "Buy", v.settlement,
                                             v.ask_call_low, v.size_contracts, v.now),
                                    LegInput(v.c_high, "Sell", v.settlement,
                                             v.bid_call_high, v.size_contracts, v.now),
                                    LegInput(v.p_low, "Sell", v.settlement,
                                             v.bid_put_low, v.size_contracts, v.now),
                                    LegInput(v.p_high, "Buy", v.settlement,
                                             v.ask_put_high, v.size_contracts, v.now)>>,
                         hold_to_expiry |-> v.cfg.hold_to_expiry])])

BoxSize(v) ==
    IF \/ ~IsSome(v.ask_call_low_opt) \/ ~IsSome(v.bid_call_high_opt)
       \/ ~IsSome(v.ask_put_high_opt) \/ ~IsSome(v.bid_put_low_opt) THEN Skip
    ELSE BoxFees(v @@
           [ask_call_low  |-> Unwrap(v.ask_call_low_opt),
            bid_call_high |-> Unwrap(v.bid_call_high_opt),
            ask_put_high  |-> Unwrap(v.ask_put_high_opt),
            bid_put_low   |-> Unwrap(v.bid_put_low_opt),
            size_contracts |->
                Min(Min(Min(Min(Unwrap(v.ask_call_low_opt).amount,
                                Unwrap(v.bid_call_high_opt).amount),
                            Unwrap(v.ask_put_high_opt).amount),
                        Unwrap(v.bid_put_low_opt).amount),
                    max_contracts_from_ticket(v.cfg, v.c_low))])

BoxQuotes(v) ==
    IF ~IsSome(v.p_low_opt) \/ ~IsSome(v.p_high_opt) THEN Skip
    ELSE BoxSize(v @@
           [p_low  |-> Unwrap(v.p_low_opt),
            p_high |-> Unwrap(v.p_high_opt),
            ask_call_low_opt  |-> Gate(v.c_low.quote.best_ask, v.cfg),
            bid_call_high_opt |-> Gate(v.c_high.quote.best_bid, v.cfg),
            ask_put_high_opt  |-> Gate(Unwrap(v.p_high_opt).quote.best_ask, v.cfg),
            bid_put_low_opt   |-> Gate(Unwrap(v.p_low_opt).quote.best_bid, v.cfg)])

BoxWindow(cfg, now, c_low, c_high, puts, currency, settlement) ==
    BoxQuotes([cfg |-> cfg, now |-> now, c_low |-> c_low, c_high |-> c_high,
               currency |-> currency, settlement |-> settlement,
               p_low_opt  |-> FindPut(puts, c_low.instrument.strike),
               p_high_opt |-> FindPut(puts, c_high.instrument.strike)])

\* the groups of detect_boxes: (expiry, settlement, currency), Usdc only
BoxKey(inst) ==
    <<inst.instrument.expiry, inst.instrument.settlement_currency,
      inst.instrument.currency>>

BoxGroup(cfg, now, snapshot, key) ==
    LET instruments == SelectSeq(snapshot, LAMBDA x :
                          x.instrument.settlement_currency = "Usdc" /\ BoxKey(x) = key)
        calls == SortByStrike(SelectSeq(instruments,
                                  LAMBDA x : x.instrument.option_kind = "Call"))
        puts  == SortByStrike(SelectSeq(instruments,
                                  LAMBDA x : x.instrument.option_kind = "Put"))
    IN  [w \in 1..(Len(calls) - 1) |->
            BoxWindow(cfg, now, calls[w], calls[w + 1], puts, key[3], key[2])]

\* order: the order in which the HashMap `by_expiry` is iterated
detect_boxes(cfg, now, snapshot, order) ==
    Collect(Concat([g \in 1..Len(order) |-> BoxGroup(cfg, now, snapshot, order[g])]))


(* detect_jelly_rolls: one iteration of `for window in expiries.windows(2)` *)

JellyEdge(v) ==
    LET debit_usd == ToUsd(v.debit_native, v.settlement, v.near_call.quote.index_price)
        net_edge_usd == (-debit_usd) - v.fee_breakdown.total_usd
    IN  IF debit_usd >= 0 THEN Skip
        ELSE IF ~v.fee_breakdown.ok THEN Fail
        ELSE IF ~EdgeFilter(v.cfg, net_edge_usd, v.fee_breakdown.total_usd) THEN Skip
        ELSE Emit(Opportunity(v.cfg, "JellyRoll", v.currency, v.settlement,
                    <<v.near_call.instrument.expiry, v.far_call.instrument.expiry>>,
                    <<v.strike>>,
                    <<Leg(v.near_call, 1, "Buy"), Leg(v.near_put, 1, "Sell"),
                      Leg(v.far_call, 1, "Sell"), Leg(v.far_put, 1, "Buy")>>,
                    <<Touch(v.near_call, "Buy", v.ask_call_near, v.size_contracts),
                      Touch(v.near_put, "Sell", v.bid_put_near, v.size_contracts),
                      Touch(v.far_call, "Sell", v.bid_call_far, v.size_contracts),
                      Touch(v.far_put, "Buy", v.ask_put_far, v.size_contracts)>>,
                    v.debit_native, v.fee_breakdown, net_edge_usd, v.near_call,
                    v.size_contracts, v.debit_native))

JellyFees(v) ==
    IF v.size_contracts <= 0 THEN Skip
    ELSE JellyEdge(v @@
           [debit_native |->
                Cost(v.ask_call_near.price, v.size_contracts,
                     v.near_call.instrument.contract_size)
                  - Cost(v.bid_put_near.price, v.size_contracts,
                         v.near_put.instrument.contract_size)
                  - Cost(v.bid_call_far.price, v.size_contracts,
                         v.far_call.instrument.contract_size)
                  + Cost(v.ask_put_far.price, v.size_contracts,
                         v.far_put.instrument.contract_size),
            fee_breakdown |->
                compute([legs |-> <<LegInput(v.near_call, "Buy", v.settlement,
                                             v.ask_call_near, v.size_contracts, v.now),
                                    LegInput(v.near_put, "Sell", v.settlement,
                                             v.bid_put_near, v.size_contracts, v.now),
                                    LegInput(v.far_call, "Sell", v.settlement,
                                             v.bid_call_far, v.size_contracts, v.now),
                                    LegInput(v.far_put, "Buy", v.settlement,
                                             v.ask_put_far, v.size_contracts, v.now)>>,
                         hold_to_expiry |-> v.cfg.hold_to_expiry])])

JellySize(v) ==
    IF \/ ~IsSome(v.ask_call_near_opt) \/ ~IsSome(v.bid_put_near_opt)
       \/ ~IsSome(v.bid_call_far_opt) \/ ~IsSome(v.ask_put_far_opt) THEN Skip
    ELSE JellyFees(v @@
           [ask_call_near |-> Unwrap(v.ask_call_near_opt),
            bid_put_near  |-> Unwrap(v.bid_put_near_opt),
            bid_call_far  |-> Unwrap(v.bid_call_far_opt),
            ask_put_far   |-> Unwrap(v.ask_put_far_opt),
            size_contracts |->
                Min(Min(Min(Min(Unwrap(v.ask_call_near_opt).amount,
                                Unwrap(v.bid_put_near_opt).amount),
                            Unwrap(v.bid_call_far_opt).amount),
                        Unwrap(v.ask_put_far_opt).amount),
                    max_contracts_from_ticket(v.cfg, v.near_call))])

JellyWindow(cfg, now, near_call, near_put, far_call, far_put, currency, strike, settlement) ==
    JellySize([cfg |-> cfg, now |-> now, near_call |-> near_call, near_put |-> near_put,
               far_call |-> far_call, far_put |-> far_put,
               currency |-> currency, strike |-> strike, settlement |-> settlement,
               ask_call_near_opt |-> Gate(near_call.quote.best_ask, cfg),
               bid_put_near_opt  |-> Gate(near_put.quote.best_bid, cfg),
               bid_call_far_opt  |-> Gate(far_call.quote.best_bid, cfg),
               ask_put_far_opt   |-> Gate(far_put.quote.best_ask, cfg)])

\* the buckets of detect_jelly_rolls: (currency, strike, settlement)
JellyKey(inst) ==
    <<inst.instrument.currency, inst.instrument.strike,
      inst.instrument.settlement_currency>>

\* bucket.call / bucket.put: the last instrument of that kind and expiry wins
Bucket(snapshot, key, expiry, kind) ==
    LET hits == SelectSeq(snapshot, LAMBDA x :
                    /\ JellyKey(x) = key
                    /\ x.instrument.expiry = expiry
                    /\ x.instrument.option_kind = kind)
    IN  IF hits = <<>> THEN None ELSE Some(hits[Len(hits)])

\* the expiries of a bucket that carry a call and a put, ascending
RECURSIVE SetToSortedSeq(_)
SetToSortedSeq(S) ==
    IF S = {} THEN <<>>
    ELSE LET m == CHOOSE x \in S : \A y \in S : x <= y
         IN  <<m>> \o SetToSortedSeq(S \ {m})

JellyGroup(cfg, now, snapshot, key) ==
    LET all_expiries ==
            {snapshot[k].instrument.expiry :
                k \in {j \in 1..Len(snapshot) : JellyKey(snapshot[j]) = key}}
        full == {e \in all_expiries :
                    /\ IsSome(Bucket(snapshot, key, e, "Call"))
                    /\ IsSome(Bucket(snapshot, key, e, "Put"))}
        expiries == SetToSortedSeq(full)
        call(e) == Unwrap(Bucket(snapshot, key, e, "Call"))
        put(e)  == Unwrap(Bucket(snapshot, key, e, "Put"))
    IN  IF Len(expiries) < 2 THEN <<>>
        ELSE [w \in 1..(Len(expiries) - 1) |->
                JellyWindow(cfg, now, call(expiries[w]), put(expiries[w]),
                            call(expiries[w + 1]), put(expiries[w + 1]),
                            key[1], key[2], key[3])]

\* order: the order in which the HashMap `buckets` is iterated
detect_jelly_rolls(cfg, now, snapshot, order) ==
    Collect(Concat([g \in 1..Len(order) |-> JellyGroup(cfg, now, snapshot, order[g])]))

----------------------------------------------------------------------------
(* DetectorSuite::scan *)

\* the groups of group_by_expiry: (currency, expiry, settlement, kind)
ExpiryKey(inst) ==
    <<inst.instrument.currency, inst.instrument.expiry,
      inst.instrument.settlement_currency, inst.instrument.option_kind>>

group_by_expiry(snapshot, key) == SelectSeq(snapshot, LAMBDA x : ExpiryKey(x) = key)

\* the keys of the HashMaps the detectors build
ExpiryKeys(snapshot)   == {ExpiryKey(snapshot[k]) : k \in 1..Len(snapshot)}
CalendarKeys(snapshot) == {CalendarKey(snapshot[k]) : k \in 1..Len(snapshot)}
BoxKeys(snapshot)      == {BoxKey(snapshot[k]) : k \in 1..Len(snapshot)}
JellyKeys(snapshot)    == {JellyKey(snapshot[k]) : k \in 1..Len(snapshot)}

\* `if let Ok(mut found) = detector(..) { opportunities.append(&mut found) }`
IfOk(result) == IF result.ok THEN result.out ELSE <<>>

\* mutant: both detectors run whatever the filter allows
ExpiryGroupUnfiltered(cfg, now, snapshot, key) ==
    IfOk(detect_verticals(cfg, now, group_by_expiry(snapshot, key), key[1], key[3], key[2]))
    \o IfOk(detect_butterflies(cfg, now, group_by_expiry(snapshot, key), key[1], key[3], key[2]))

\* the body of `for (key, instruments) in groups.iter()`
ExpiryGroup(cfg, now, snapshot, key) ==
    LET instruments == group_by_expiry(snapshot, key)
    IN  (IF "Vertical" \in cfg.strategy_filter
         THEN IfOk(detect_verticals(cfg, now, instruments, key[1], key[3], key[2]))
         ELSE <<>>)
        \o
        (IF "Butterfly" \in cfg.strategy_filter
         THEN IfOk(detect_butterflies(cfg, now, instruments, key[1], key[3], key[2]))
         ELSE <<>>)

\* the four orders are the iteration orders of the four HashMaps
scan(cfg, now, snapshot, groups_order, calendar_order, box_order, jelly_order) ==
    SortByEdgeDesc(
        Concat([g \in 1..Len(groups_order) |->
                  ExpiryGroup(cfg, now, snapshot, groups_order[g])])
        \o (IF "Calendar" \in cfg.strategy_filter
            THEN IfOk(detect_calendars(cfg, now, snapshot, calendar_order))
            ELSE <<>>)
        \o (IF "Box" \in cfg.strategy_filter
            THEN IfOk(detect_boxes(cfg, now, snapshot, box_order))
            ELSE <<>>)
        \o (IF "JellyRoll" \in cfg.strategy_filter
            THEN IfOk(detect_jelly_rolls(cfg, now, snapshot, jelly_order))
            ELSE <<>>))

----------------------------------------------------------------------------
(* Inputs of the scan: instruments, quotes, configurations *)

MaxAmount == 2     \* the deepest touch amount, in contracts

Instrument(name, kind, strike, expiry, settlement) ==
    [instrument_name |-> name, currency |-> "BTC", option_kind |-> kind,
     strike |-> strike, expiry |-> expiry, contract_size |-> 1,
     settlement_currency |-> settlement]

UC100  == Instrument("BTC_USDC-E30-100-C", "Call", 100, 30, "Usdc")
UC110  == Instrument("BTC_USDC-E30-110-C", "Call", 110, 30, "Usdc")
UC120  == Instrument("BTC_USDC-E30-120-C", "Call", 120, 30, "Usdc")
UC104  == Instrument("BTC_USDC-E30-104-C", "Call", 104, 30, "Usdc")
UP100  == Instrument("BTC_USDC-E30-100-P", "Put", 100, 30, "Usdc")
UP110  == Instrument("BTC_USDC-E30-110-P", "Put", 110, 30, "Usdc")
UC100F == Instrument("BTC_USDC-E60-100-C", "Call", 100, 60, "Usdc")
UP100F == Instrument("BTC_USDC-E60-100-P", "Put", 100, 60, "Usdc")
UC100D == Instrument("BTC_USDC-E30-100-C-D", "Call", 100, 30, "Usdc")
CC100  == Instrument("BTC-E30-100-C", "Call", 100, 30, "Coin")
CC200  == Instrument("BTC-E30-200-C", "Call", 200, 30, "Coin")

\* the instrument lists of the snapshots that are scanned
Layouts ==
    { <<UC100, UC110>>,                      \* a call vertical
      <<UC120, UC100, UC110>>,               \* a butterfly, two verticals
      <<UC100F, UC100>>,                     \* a calendar
      <<UC100, UC110, UP100, UP110>>,        \* a box, two verticals
      <<UC100, UP100, UC100F, UP100F>>,      \* a jelly roll, two calendars
      <<CC100, CC200>>,                      \* a coin-settled vertical
      <<UC100, UC100D, UC110>>,              \* two instruments with one key
      <<UC100, UC104>>,                      \* strikes closer than the touches
      <<UC100, UC100D, UP100>> }             \* two calls and a put at one strike

Level(price, contracts) == [price |-> price, amount |-> contracts * SizeDen]

Quote(bid, ask, index_price) ==
    [best_bid |-> bid, best_ask |-> ask, index_price |-> index_price]

\* the quote upsert_instrument creates
EmptyQuote == Quote(None, None, 0)

\* prices are thousandths: 4000 is 4 USD for Usdc, 4 is 0.004 coin for Coin
QuoteChoices(settlement) ==
    LET u == IF settlement = "Usdc" THEN PriceDen ELSE 1
    IN  { Quote(Some(Level(4 * u, MaxAmount)), Some(Level(5 * u, MaxAmount)), 10000),
          Quote(Some(Level(8 * u, MaxAmount)), Some(Level(9 * u, MaxAmount)), 10000),
          Quote(Some(Level(8 * u, 1)), Some(Level(9 * u, 1)), 1000),
          Quote(None, Some(Level(5 * u, MaxAmount)), 10000),
          Quote(Some(Level(4 * u, MaxAmount)), Some(Level(5 * u, MaxAmount)), 0),
          \* an index that does not divide the ticket: 20000 / 75000 = 0.2666...
          Quote(Some(Level(4 * u, MaxAmount)), Some(Level(5 * u, MaxAmount)), 75000),
          EmptyQuote }

AllStrategies == {"Vertical", "Butterfly", "Calendar", "Box", "JellyRoll"}

Config(ticket, edge, ratio, hold, filter, depth) ==
    [max_ticket_usd |-> ticket, min_edge_usd |-> edge, min_edge_ratio |-> ratio,
     hold_to_expiry |-> hold, strategy_filter |-> filter,
     min_depth_contracts |-> depth, max_concurrent_combos |-> 1, dry_run |-> TRUE]

\* <<configuration, now>>; min_edge_ratio 3 is 1.5, 20 is 10.0
Environments ==
    { <<Config(20000, 0, 3, FALSE, AllStrategies, 1), 0>>,
      <<Config(20000, 2, 20, TRUE, AllStrategies, 1), 0>>,
      <<Config(5000, 0, 3, TRUE, AllStrategies, 2), 29>>,
      <<Config(5000, 2, 20, FALSE, AllStrategies, 1), 0>>,
      <<Config(20000, 0, 3, FALSE, {"Vertical", "Box", "StaleQuote"}, 2), 29>>,
      <<Config(20000, 0, 2, TRUE, {"StaleQuote"}, 1), 0>> }

\* every assignment of quotes to the instruments of a layout
RECURSIVE SnapshotsOf(_)
SnapshotsOf(layout) ==
    IF layout = <<>> THEN {<<>>}
    ELSE LET last == layout[Len(layout)]
         IN  { Append(front, [instrument |-> last, quote |-> quote, order_book |-> None]) :
               front \in SnapshotsOf(SubSeq(layout, 1, Len(layout) - 1)),
               quote \in QuoteChoices(last.settlement_currency) }

Snapshots == UNION { SnapshotsOf(layout) : layout \in Layouts }


----------------------------------------------------------------------------
(* The scan as a state machine *)

\* the state of the components a specification does not exercise
RiskIdle ==
    /\ risk_state = [live_combos |-> 0, ewma_num |-> 0, ewma_exp |-> 0]
    /\ risk_mutex = None
    /\ rthreads = <<>>

ChainIdle ==
    /\ inner = <<>>
    /\ rwlock = [writer |-> None, readers |-> {}]
    /\ cthreads = <<>>
    /\ chist = <<>>

FeeIdle ==
    /\ fee_ctx = [legs |-> <<>>, hold_to_expiry |-> FALSE]
    /\ fee_result = None

ExecIdle ==
    /\ planner = <<>>
    /\ venue = <<>>

MainIdle == main = <<>>

ScanIdle ==
    /\ scan_input = <<>>
    /\ utc_now = 0
    /\ opportunities = <<>>
    /\ phase = "ready"
    /\ previous = None

Init ==
    /\ scan_input \in Snapshots
    /\ \E env \in Environments : config = env[1] /\ utc_now = env[2]
    /\ opportunities = <<>>
    /\ phase = "ready"
    /\ previous = None
    /\ RiskIdle
    /\ ChainIdle
    /\ FeeIdle
    /\ ExecIdle
    /\ MainIdle

\* an iteration that is not a plain `continue`
Productive(iterations) == \E k \in 1..Len(iterations) : iterations[k] # Skip

\* the keys of each HashMap whose group appends something; a group whose
\* iterations all `continue` appends nothing wherever it comes in the iteration
groups(cfg, now, snapshot) ==
    {k \in ExpiryKeys(snapshot) : ExpiryGroup(cfg, now, snapshot, k) # <<>>}

grouped(cfg, now, snapshot) ==
    {k \in CalendarKeys(snapshot) : Productive(CalendarGroup(cfg, now, snapshot, k))}

box_groups(cfg, now, snapshot) ==
    {k \in BoxKeys(SelectSeq(snapshot, LAMBDA x : x.instrument.settlement_currency = "Usdc")) :
        Productive(BoxGroup(cfg, now, snapshot, k))}

buckets(cfg, now, snapshot) ==
    {k \in JellyKeys(snapshot) : Productive(JellyGroup(cfg, now, snapshot, k))}

\* let opportunities = detector.scan(&snapshot.instruments);
\* each HashMap is iterated in any order
Scan ==
    /\ phase = "ready"
    /\ \E groups_order \in Orders(groups(config, utc_now, scan_input)),
          calendar_order \in Orders(grouped(config, utc_now, scan_input)),
          box_order \in Orders(box_groups(config, utc_now, scan_input)),
          jelly_order \in Orders(buckets(config, utc_now, scan_input)) :
            opportunities' = scan(config, utc_now, scan_input, groups_order,
                                  calendar_order, box_order, jelly_order)
    /\ phase' = "scanned"
    /\ UNCHANGED <<scan_input, config, utc_now, previous, risk_vars, chain_vars, fee_vars, exec_vars, main>>

Next == Scan

Spec == Init /\ [][Next]_vars


----------------------------------------------------------------------------
(* Claims about the detector suite *)

Opps == {opportunities[k] : k \in 1..Len(opportunities)}

\* net_edge_usd / max(total_usd, 0.01) >= min_edge_ratio
MeetsRatio(opp) ==
    LET fees == opp.fee_breakdown.total_usd
        guard == IF fees > MoneyDen \div 100 THEN fees ELSE MoneyDen \div 100
    IN  opp.net_edge_usd * RatioDen >= config.min_edge_ratio * guard

\* C1: every opportunity returned by scan, of any of the five strategy kinds,
\* has net_edge_usd / max(fee_breakdown.total_usd, 0.01) >= min_edge_ratio.
C1_EdgeRatioEveryKind ==
    phase = "scanned" => \A opp \in Opps : MeetsRatio(opp)

\* the four detectors that apply the ratio test do meet it
EdgeRatioExceptBox ==
    phase = "scanned" => \A opp \in Opps : opp.strategy # "Box" => MeetsRatio(opp)

\* C2: every opportunity returned by scan has size_contracts > 0,
\* net_edge_usd > 0 and net_edge_usd >= min_edge_usd, for every snapshot and
\* configuration, min_edge_usd = 0 included.
C2_SizeAndEdgePositive ==
    phase = "scanned" =>
        \A opp \in Opps :
            /\ opp.size_contracts > 0
            /\ opp.net_edge_usd > 0
            /\ opp.net_edge_usd >= config.min_edge_usd * MoneyDen

\* opportunities of all five kinds are produced, with and without a minimum edge
C2_Witness ==
    /\ phase = "scanned"
    /\ config.min_edge_usd = 0
    /\ \E a, b \in Opps : a.strategy = "Box" /\ b.strategy = "Vertical"

\* C4: the vector returned by scan is sorted non-increasing by net_edge_usd.
C4_SortedByEdge ==
    phase = "scanned" =>
        \A k \in 1..(Len(opportunities) - 1) :
            opportunities[k].net_edge_usd >= opportunities[k + 1].net_edge_usd

\* a result holding opportunities of different strategies and different edges
C4_Witness ==
    /\ phase = "scanned"
    /\ \E j, k \in 1..Len(opportunities) :
          /\ j < k
          /\ opportunities[j].strategy # opportunities[k].strategy
          /\ opportunities[j].net_edge_usd > opportunities[k].net_edge_usd
          /\ opportunities[j].strategy = "JellyRoll"

\* every family is detected somewhere
SeenStrategy(kind) == phase = "scanned" /\ \E opp \in Opps : opp.strategy = kind


(* Completeness of detection, stated on the snapshot as a set *)

Insts == {scan_input[k] : k \in 1..Len(scan_input)}

\* each (currency, expiry, settlement, option_kind, strike) names one instrument
UniqueKeys ==
    \A j, k \in 1..Len(scan_input) :
        (/\ ExpiryKey(scan_input[j]) = ExpiryKey(scan_input[k])
         /\ scan_input[j].instrument.strike = scan_input[k].instrument.strike) => j = k

SameSeries(a, b) == ExpiryKey(a) = ExpiryKey(b)

\* b is the next strike above a among the instruments of a's series
NextStrike(a, b) ==
    /\ SameSeries(a, b)
    /\ a.instrument.strike < b.instrument.strike
    /\ ~\E c \in Insts : /\ SameSeries(a, c)
                         /\ a.instrument.strike < c.instrument.strike
                         /\ c.instrument.strike < b.instrument.strike

\* a call and a put of one currency, strike, settlement and expiry
Pair(c, p) ==
    /\ c.instrument.option_kind = "Call" /\ p.instrument.option_kind = "Put"
    /\ JellyKey(c) = JellyKey(p)
    /\ c.instrument.expiry = p.instrument.expiry

Paired(x) == \E c, p \in Insts : Pair(c, p) /\ x \in {c, p}

\* a leg of a combination: the instrument, the side, the ratio and the touch
\* that side consumes (the ask for a buy, the bid for a sell)
CLeg(inst, side, ratio) ==
    [inst |-> inst, side |-> side, ratio |-> ratio,
     level |-> IF side = "Buy" THEN inst.quote.best_ask ELSE inst.quote.best_bid]

\* the combinations of each family; legs[1] is the base leg
Combinations(kind) ==
    CASE kind = "Vertical" ->
           { IF a.instrument.option_kind = "Call"
             THEN <<CLeg(a, "Buy", 1), CLeg(b, "Sell", 1)>>
             ELSE <<CLeg(b, "Buy", 1), CLeg(a, "Sell", 1)>> :
             <<a, b>> \in {ab \in Insts \X Insts : NextStrike(ab[1], ab[2])} }
      [] kind = "Butterfly" ->
           { <<CLeg(t[1], "Buy", 1), CLeg(t[2], "Sell", 2), CLeg(t[3], "Buy", 1)>> :
             t \in {lmh \in Insts \X Insts \X Insts :
                      NextStrike(lmh[1], lmh[2]) /\ NextStrike(lmh[2], lmh[3])} }
      [] kind = "Calendar" ->
           { <<CLeg(t[1], "Sell", 1), CLeg(t[2], "Buy", 1)>> :
             t \in {nf \in Insts \X Insts :
                      /\ CalendarKey(nf[1]) = CalendarKey(nf[2])
                      /\ nf[1].instrument.expiry < nf[2].instrument.expiry
                      /\ ~\E c \in Insts :
                            /\ CalendarKey(c) = CalendarKey(nf[1])
                            /\ nf[1].instrument.expiry < c.instrument.expiry
                            /\ c.instrument.expiry < nf[2].instrument.expiry} }
      [] kind = "Box" ->
           { <<CLeg(t[1], "Buy", 1), CLeg(t[2], "Sell", 1),
               CLeg(t[3], "Sell", 1), CLeg(t[4], "Buy", 1)>> :
             t \in {q \in Insts \X Insts \X Insts \X Insts :
                      /\ q[1].instrument.settlement_currency = "Usdc"
                      /\ q[1].instrument.option_kind = "Call"
                      /\ NextStrike(q[1], q[2])
                      /\ Pair(q[1], q[3]) /\ Pair(q[2], q[4])} }
      [] kind = "JellyRoll" ->
           { <<CLeg(t[1], "Buy", 1), CLeg(t[2], "Sell", 1),
               CLeg(t[3], "Sell", 1), CLeg(t[4], "Buy", 1)>> :
             t \in {q \in Insts \X Insts \X Insts \X Insts :
                      /\ Pair(q[1], q[2]) /\ Pair(q[3], q[4])
                      /\ JellyKey(q[1]) = JellyKey(q[3])
                      /\ q[1].instrument.expiry < q[3].instrument.expiry
                      /\ ~\E c \in Insts :
                            /\ Paired(c) /\ JellyKey(c) = JellyKey(q[1])
                            /\ q[1].instrument.expiry < c.instrument.expiry
                            /\ c.instrument.expiry < q[3].instrument.expiry} }

\* the touch of every leg exists with amount >= min_depth_contracts
DepthOk(legs) ==
    \A k \in 1..Len(legs) :
        /\ legs[k].level # None
        /\ legs[k].level[1].amount >= config.min_depth_contracts * SizeDen

\* min(touch amounts scaled by ratio, ticket cap of the base leg)
SizeOf(legs) ==
    LET scaled == {legs[k].level[1].amount \div legs[k].ratio : k \in 1..Len(legs)}
        depth  == CHOOSE m \in scaled : \A x \in scaled : m <= x
        ticket == max_contracts_from_ticket(config, legs[1].inst)
    IN  IF depth <= ticket THEN depth ELSE ticket

\* signed native cost at the touches: buys paid, sells received
CostOf(legs, size) ==
    SumSeq([k \in 1..Len(legs) |->
        (IF legs[k].side = "Buy" THEN 1 ELSE -1)
          * Cost(legs[k].level[1].price, size * legs[k].ratio,
                 legs[k].inst.instrument.contract_size)])

FeesOf(legs, size) ==
    compute([legs |-> [k \in 1..Len(legs) |->
                LegInput(legs[k].inst, legs[k].side,
                         legs[1].inst.instrument.settlement_currency,
                         legs[k].level[1], size * legs[k].ratio, utc_now)],
             hold_to_expiry |-> config.hold_to_expiry]).total_usd

\* the fixed payoff a vertical or a box is measured against
PayoutOf(kind, legs, size) ==
    IF kind \in {"Vertical", "Box"}
    THEN Payout(Abs(legs[1].inst.instrument.strike - legs[2].inst.instrument.strike),
                size, legs[1].inst.instrument.contract_size)
    ELSE 0

\* a combination that meets its family's cost-sign requirement and the edge filter
Qualifies(kind, legs) ==
    /\ kind \in config.strategy_filter
    /\ DepthOk(legs)
    /\ LET size == SizeOf(legs)
           cost_native == CostOf(legs, size)
           cost_usd == ToUsd(cost_native, legs[1].inst.instrument.settlement_currency,
                             legs[1].inst.quote.index_price)
           fees == FeesOf(legs, size)
           net == PayoutOf(kind, legs, size) - cost_usd - fees
       IN  /\ size > 0
           /\ kind = "Vertical" => cost_native >= 0
           /\ kind \in {"Calendar", "JellyRoll"} => cost_usd < 0
           /\ net > 0
           /\ net >= config.min_edge_usd * MoneyDen
           /\ net * RatioDen >= config.min_edge_ratio * Max(fees, MoneyDen \div 100)

\* scan returned an opportunity of that strategy for that combination
Detected(kind, legs) ==
    \E opp \in Opps :
        /\ opp.strategy = kind
        /\ opp.legs = [k \in 1..Len(legs) |->
                         [instrument_name |-> legs[k].inst.instrument.instrument_name,
                          ratio |-> legs[k].ratio, side |-> legs[k].side]]

\* C3: detection is complete. When each (currency, expiry, settlement,
\* option_kind, strike) identifies at most one instrument, every adjacent
\* combination of an enabled family whose touches exist with enough depth,
\* whose size is positive and which meets the cost-sign requirement and the
\* edge filter is returned by scan as an opportunity of that strategy.
C3_DetectionComplete ==
    (phase = "scanned" /\ UniqueKeys) =>
        \A kind \in AllStrategies :
            \A legs \in Combinations(kind) : Qualifies(kind, legs) => Detected(kind, legs)

\* a snapshot in which a box and a vertical both qualify, after the scan
C3_Witness ==
    /\ phase = "scanned"
    /\ UniqueKeys
    /\ \E legs \in Combinations("Box") : Qualifies("Box", legs)
    /\ \E legs \in Combinations("Vertical") : Qualifies("Vertical", legs)

QualifiesSomewhere(kind) ==
    phase = "scanned" /\ UniqueKeys /\ \E legs \in Combinations(kind) : Qualifies(kind, legs)

----------------------------------------------------------------------------
(* Risk gate: risk/mod.rs                                                   *)
(*                                                                          *)
(* Threads call approve, release and record_pnl on one shared RiskManager.  *)
(* Each call locks the Mutex, runs its body one statement at a time and     *)
(* unlocks when the guard is dropped at return.  ewma_pnl is the fraction   *)
(* ewma_num / 5^ewma_exp: one record_pnl multiplies the denominator by 5.   *)

RiskThreadCount == 2     \* threads sharing the RiskManager
MaxPnlRecords   == 3     \* record_pnl calls in one behaviour
MaxCombos       == 2     \* largest max_concurrent_combos configured

RiskThreads == 1..RiskThreadCount

RiskConfigs ==
    { [Config(20000, 0, 3, FALSE, AllStrategies, 1) EXCEPT !.max_concurrent_combos = m] :
        m \in 0..MaxCombos }

\* opp.notional_usd of the opportunities offered: the cap itself and just above it
NotionalChoices(cfg) == {cfg.max_ticket_usd * SizeDen, cfg.max_ticket_usd * SizeDen + 1}

\* pnl_usd of the fills recorded, in USD
PnlChoices == {-1, 1}

RECURSIVE Pow5(_)
Pow5(n) == IF n = 0 THEN 1 ELSE 5 * Pow5(n - 1)

\* a thread that is in none of the three calls
RiskThreadIdle ==
    [pc |-> "idle", notional_usd |-> 0, pnl_usd |-> 0, result |-> FALSE,
     entry |-> [live_combos |-> 0, ewma_num |-> 0, ewma_exp |-> 0]]

\* mutant: lock() that does not wait for the guard to be dropped
MutexIgnored == TRUE

\* self.state.lock() succeeds only while no guard is alive
MutexFree == risk_mutex = None

\* mutant: the limit test with > for >=
AtLimitStrict(state, cfg) == state.live_combos > cfg.max_concurrent_combos

\* state.live_combos >= config.max_concurrent_combos
AtLimit(state, cfg) == state.live_combos >= cfg.max_concurrent_combos

\* opp.notional_usd > config.max_ticket_usd
OverTicket(notional_usd, cfg) == notional_usd > cfg.max_ticket_usd * SizeDen

\* state.ewma_pnl < Decimal::ZERO
PnlNegative(state) == state.ewma_num < 0

\* (Decimal::ONE - alpha) * state.ewma_pnl + alpha * pnl_usd, alpha = 0.2
Ewma(state, pnl_usd) ==
    [state EXCEPT !.ewma_num = 4 * state.ewma_num + pnl_usd * Pow5(state.ewma_exp),
                  !.ewma_exp = state.ewma_exp + 1]

\* record_pnl calls made so far, finished or not
PnlRecords ==
    risk_state.ewma_exp
      + Cardinality({t \in RiskThreads : rthreads[t].pc \in {"record_pnl:lock", "record_pnl:update"}})

RiskLock(t, from, to) ==
    /\ rthreads[t].pc = from
    /\ MutexFree
    /\ risk_mutex' = Some(t)
    /\ rthreads' = [rthreads EXCEPT ![t].pc = to, ![t].entry = risk_state]
    /\ UNCHANGED risk_state

\* mutant: the call returns with the guard kept alive
RiskReturnHolding(t, from) ==
    /\ rthreads[t].pc = from
    /\ rthreads' = [rthreads EXCEPT ![t] = RiskThreadIdle]
    /\ UNCHANGED <<risk_state, risk_mutex>>

\* the guard is dropped when the call returns
RiskReturn(t, from) ==
    /\ rthreads[t].pc = from
    /\ risk_mutex' = None
    /\ rthreads' = [rthreads EXCEPT ![t] = RiskThreadIdle]
    /\ UNCHANGED risk_state

(* approve *)

ApproveCall(t, notional_usd) ==
    /\ rthreads[t].pc = "idle"
    /\ rthreads' = [rthreads EXCEPT ![t].pc = "approve:lock",
                                    ![t].notional_usd = notional_usd]
    /\ UNCHANGED <<risk_state, risk_mutex>>

ApproveLock(t) == RiskLock(t, "approve:lock", "approve:max_combos")

ApproveMaxCombos(t) ==
    /\ rthreads[t].pc = "approve:max_combos"
    /\ rthreads' = [rthreads EXCEPT
                      ![t].pc = IF AtLimit(risk_state, config)
                                THEN "approve:return" ELSE "approve:ticket",
                      ![t].result = FALSE]
    /\ UNCHANGED <<risk_state, risk_mutex>>

ApproveTicket(t) ==
    /\ rthreads[t].pc = "approve:ticket"
    /\ rthreads' = [rthreads EXCEPT
                      ![t].pc = IF OverTicket(rthreads[t].notional_usd, config)
                                THEN "approve:return" ELSE "approve:pnl",
                      ![t].result = FALSE]
    /\ UNCHANGED <<risk_state, risk_mutex>>

ApprovePnl(t) ==
    /\ rthreads[t].pc = "approve:pnl"
    /\ rthreads' = [rthreads EXCEPT
                      ![t].pc = IF PnlNegative(risk_state)
                                THEN "approve:return" ELSE "approve:increment",
                      ![t].result = FALSE]
    /\ UNCHANGED <<risk_state, risk_mutex>>

\* state.live_combos += 1; true
ApproveIncrement(t) ==
    /\ rthreads[t].pc = "approve:increment"
    /\ risk_state' = [risk_state EXCEPT !.live_combos = risk_state.live_combos + 1]
    /\ rthreads' = [rthreads EXCEPT ![t].pc = "approve:return", ![t].result = TRUE]
    /\ UNCHANGED risk_mutex

ApproveReturn(t) == RiskReturn(t, "approve:return")

(* release *)

ReleaseCall(t) ==
    /\ rthreads[t].pc = "idle"
    /\ rthreads' = [rthreads EXCEPT ![t].pc = "release:lock"]
    /\ UNCHANGED <<risk_state, risk_mutex>>

ReleaseLock(t) == RiskLock(t, "release:lock", "release:decrement")

\* if state.live_combos > 0 { state.live_combos -= 1; }
ReleaseDecrement(t) ==
    /\ rthreads[t].pc = "release:decrement"
    /\ risk_state' = [risk_state EXCEPT
                        !.live_combos = IF risk_state.live_combos > 0
                                        THEN risk_state.live_combos - 1
                                        ELSE risk_state.live_combos]
    /\ rthreads' = [rthreads EXCEPT ![t].pc = "release:return"]
    /\ UNCHANGED risk_mutex

ReleaseReturn(t) == RiskReturn(t, "release:return")

(* record_pnl *)

RecordPnlCall(t, pnl_usd) ==
    /\ rthreads[t].pc = "idle"
    /\ PnlRecords < MaxPnlRecords
    /\ rthreads' = [rthreads EXCEPT ![t].pc = "record_pnl:lock", ![t].pnl_usd = pnl_usd]
    /\ UNCHANGED <<risk_state, risk_mutex>>

RecordPnlLock(t) == RiskLock(t, "record_pnl:lock", "record_pnl:update")

RecordPnlUpdate(t) ==
    /\ rthreads[t].pc = "record_pnl:update"
    /\ risk_state' = Ewma(risk_state, rthreads[t].pnl_usd)
    /\ rthreads' = [rthreads EXCEPT ![t].pc = "record_pnl:return"]
    /\ UNCHANGED risk_mutex

RecordPnlReturn(t) == RiskReturn(t, "record_pnl:return")

InitRisk ==
    /\ ScanIdle
    /\ FeeIdle
    /\ ExecIdle
    /\ MainIdle
    /\ config \in RiskConfigs
    /\ risk_state = [live_combos |-> 0, ewma_num |-> 0, ewma_exp |-> 0]
    /\ risk_mutex = None
    /\ rthreads = [t \in RiskThreads |-> RiskThreadIdle]
    /\ ChainIdle

NextRisk ==
    /\ \E t \in RiskThreads :
          \/ \E notional_usd \in NotionalChoices(config) : ApproveCall(t, notional_usd)
          \/ ApproveLock(t)
          \/ ApproveMaxCombos(t)
          \/ ApproveTicket(t)
          \/ ApprovePnl(t)
          \/ ApproveIncrement(t)
          \/ ApproveReturn(t)
          \/ ReleaseCall(t)
          \/ ReleaseLock(t)
          \/ ReleaseDecrement(t)
          \/ ReleaseReturn(t)
          \/ \E pnl_usd \in PnlChoices : RecordPnlCall(t, pnl_usd)
          \/ RecordPnlLock(t)
          \/ RecordPnlUpdate(t)
          \/ RecordPnlReturn(t)
    /\ UNCHANGED <<scan_vars, chain_vars, fee_vars, exec_vars, main>>

SpecRisk == InitRisk /\ [][NextRisk]_vars

(* Claims about the risk gate *)

\* the state the call of thread t was decided on: the state when it took the lock
EntryOf(t) == rthreads[t].entry

\* C5: approve returns true exactly when live_combos < max_concurrent_combos,
\* notional_usd <= max_ticket_usd and ewma_pnl >= 0 on the state the call runs on;
\* returning true adds exactly one to live_combos, returning false changes nothing.
C5_ApproveDecision ==
    \A t \in RiskThreads :
        rthreads[t].pc = "approve:return" =>
            /\ rthreads[t].result =
                  (/\ EntryOf(t).live_combos < config.max_concurrent_combos
                   /\ rthreads[t].notional_usd <= config.max_ticket_usd * SizeDen
                   /\ EntryOf(t).ewma_num >= 0)
            /\ rthreads[t].result =>
                  risk_state = [EntryOf(t) EXCEPT !.live_combos = EntryOf(t).live_combos + 1]
            /\ ~rthreads[t].result => risk_state = EntryOf(t)

\* an approve that returned true after a record_pnl, at the ticket cap itself
C5_Witness ==
    \E t \in RiskThreads :
        /\ rthreads[t].pc = "approve:return"
        /\ rthreads[t].result
        /\ rthreads[t].notional_usd = config.max_ticket_usd * SizeDen
        /\ EntryOf(t).ewma_exp > 0
        /\ risk_state.live_combos = EntryOf(t).live_combos + 1

\* the three ways approve returns false
C5_RefusedAtLimit ==
    \E t \in RiskThreads :
        /\ rthreads[t].pc = "approve:return" /\ ~rthreads[t].result
        /\ EntryOf(t).live_combos = config.max_concurrent_combos
        /\ config.max_concurrent_combos > 0

C5_RefusedOverTicket ==
    \E t \in RiskThreads :
        /\ rthreads[t].pc = "approve:return" /\ ~rthreads[t].result
        /\ EntryOf(t).live_combos < config.max_concurrent_combos
        /\ rthreads[t].notional_usd > config.max_ticket_usd * SizeDen

C5_RefusedNegativePnl ==
    \E t \in RiskThreads :
        /\ rthreads[t].pc = "approve:return" /\ ~rthreads[t].result
        /\ EntryOf(t).live_combos < config.max_concurrent_combos
        /\ rthreads[t].notional_usd <= config.max_ticket_usd * SizeDen
        /\ EntryOf(t).ewma_num < 0

\* C6: 0 <= live_combos <= max_concurrent_combos in every reachable state, under
\* any interleaving of approve, release and record_pnl from concurrent threads.
C6_LiveCombosBounded ==
    /\ risk_state.live_combos >= 0
    /\ risk_state.live_combos <= config.max_concurrent_combos

\* one approve has just taken the last slot while another approve waits for the lock
C6_Witness ==
    \E t, u \in RiskThreads :
        /\ t # u
        /\ rthreads[t].pc = "approve:return" /\ rthreads[t].result
        /\ risk_state.live_combos = config.max_concurrent_combos
        /\ rthreads[u].pc = "approve:lock"

\* a release that found live_combos at 0 and left it there
C6_ReleaseAtZero ==
    \E t \in RiskThreads :
        /\ rthreads[t].pc = "release:return"
        /\ EntryOf(t).live_combos = 0
        /\ risk_state.live_combos = 0

----------------------------------------------------------------------------
(* Option chain store: chain/mod.rs                                         *)
(*                                                                          *)
(* Threads call upsert_instrument, update_quote, update_order_book and      *)
(* snapshot on one shared OptionChain.  A writer takes the RwLock           *)
(* exclusively, a reader shares it; each releases it when its guard is      *)
(* dropped at return, which is when the call is complete.  snapshot clones  *)
(* the values of the HashMap one entry at a time, in the map's own order.   *)
(* Quote and order-book timestamps and the f64 fields are not modelled.     *)

ChainThreadCount == 2    \* threads sharing the OptionChain
MaxChainCalls == 4       \* calls made on the OptionChain in one behaviour

ChainThreads == 1..ChainThreadCount

\* two names; the first is upserted with two versions of its metadata
ChainInstruments == {UC100, [UC100 EXCEPT !.contract_size = 10], UC110}

ChainNames == {i.instrument_name : i \in ChainInstruments}

ChainQuotes ==
    { Quote(Some(Level(4 * PriceDen, 1)), Some(Level(5 * PriceDen, 1)), 10000),
      Quote(None, Some(Level(5 * PriceDen, 1)), 1000) }

ChainBooks == { [bids |-> <<Level(4 * PriceDen, 1)>>, asks |-> <<Level(5 * PriceDen, 1)>>] }

\* mutant: HashMap::insert, which replaces the whole entry
upsert_instrument_overwriting(map, instrument) ==
    [n \in DOMAIN map \cup {instrument.instrument_name} |->
        IF n # instrument.instrument_name THEN map[n]
        ELSE [instrument |-> instrument, quote |-> EmptyQuote, order_book |-> None]]

\* guard.entry(name).and_modify(|snapshot| snapshot.instrument = instrument)
\*      .or_insert(InstrumentSnapshot { instrument, quote: <empty>, order_book: None })
upsert_instrument(map, instrument) ==
    [n \in DOMAIN map \cup {instrument.instrument_name} |->
        IF n # instrument.instrument_name THEN map[n]
        ELSE IF n \in DOMAIN map THEN [map[n] EXCEPT !.instrument = instrument]
        ELSE [instrument |-> instrument, quote |-> EmptyQuote, order_book |-> None]]

\* mutant: the first quote of an entry is kept, later ones are dropped
update_quote_first_wins(map, instrument_name, quote) ==
    IF instrument_name \in DOMAIN map /\ map[instrument_name].quote = EmptyQuote
    THEN [map EXCEPT ![instrument_name].quote = quote]
    ELSE map

\* if let Some(snapshot) = guard.get_mut(instrument_name) { snapshot.quote = quote; }
update_quote(map, instrument_name, quote) ==
    IF instrument_name \in DOMAIN map
    THEN [map EXCEPT ![instrument_name].quote = quote]
    ELSE map

\* mutant: the entry is rebuilt around the book, which loses its quote
update_order_book_clobbering(map, instrument_name, order_book) ==
    IF instrument_name \in DOMAIN map
    THEN [map EXCEPT ![instrument_name] =
            [instrument |-> map[instrument_name].instrument, quote |-> EmptyQuote,
             order_book |-> Some(order_book)]]
    ELSE map

\* if let Some(snapshot) = guard.get_mut(instrument_name) {
\*     snapshot.order_book = Some(order_book); }
update_order_book(map, instrument_name, order_book) ==
    IF instrument_name \in DOMAIN map
    THEN [map EXCEPT ![instrument_name].order_book = Some(order_book)]
    ELSE map

\* mutant: a writer that does not wait for the readers
WriteLockIgnoringReaders == rwlock.writer = None

\* self.inner.write() succeeds only while no guard of either kind is alive
WriteLockFree == rwlock.writer = None /\ rwlock.readers = {}

\* self.inner.read() succeeds only while no write guard is alive
ReadLockFree == rwlock.writer = None

ChainThreadIdle ==
    [pc |-> "idle", name |-> "", arg |-> None, known |-> FALSE,
     instruments |-> <<>>, expect |-> <<>>, stats |-> None]

\* the names of the entries a snapshot call has cloned so far
Cloned(t) ==
    {cthreads[t].instruments[k].instrument.instrument_name :
        k \in 1..Len(cthreads[t].instruments)}

\* history: every reader that holds the lock has seen the store become `map`
Observed(map) ==
    [u \in ChainThreads |->
        IF cthreads[u].pc \in {"snapshot:clone", "snapshot:return"}
        THEN chist.views[u] \cup {map}
        ELSE chist.views[u]]

ChainCall(t, op, name, arg) ==
    /\ cthreads[t].pc = "idle"
    /\ chist.calls < MaxChainCalls
    /\ cthreads' = [cthreads EXCEPT ![t].pc = op, ![t].name = name, ![t].arg = arg,
                                    ![t].known = name \in chist.upserted]
    /\ chist' = [chist EXCEPT !.calls = chist.calls + 1]
    /\ UNCHANGED <<inner, rwlock>>

\* the write guard is taken and the map is changed to `map`
ChainWrite(t, from, to, map) ==
    /\ cthreads[t].pc = from
    /\ WriteLockFree
    /\ rwlock' = [rwlock EXCEPT !.writer = Some(t)]
    /\ inner' = map
    /\ cthreads' = [cthreads EXCEPT ![t].pc = to]

\* the write guard is dropped
ChainWriteReturn(t, from) ==
    /\ cthreads[t].pc = from
    /\ rwlock' = [rwlock EXCEPT !.writer = None]
    /\ cthreads' = [cthreads EXCEPT ![t] = ChainThreadIdle]
    /\ UNCHANGED inner

(* upsert_instrument *)

UpsertInstrumentCall(t, instrument) ==
    ChainCall(t, "upsert_instrument:lock", instrument.instrument_name, Some(instrument))

UpsertInstrumentWrite(t) ==
    /\ ChainWrite(t, "upsert_instrument:lock", "upsert_instrument:return",
                  upsert_instrument(inner, Unwrap(cthreads[t].arg)))
    /\ chist' = [chist EXCEPT !.before = inner,
                              !.ever = chist.ever \cup {cthreads[t].name},
                              !.views = Observed(inner')]

UpsertInstrumentReturn(t) ==
    /\ ChainWriteReturn(t, "upsert_instrument:return")
    /\ chist' = [chist EXCEPT !.upserted = chist.upserted \cup {cthreads[t].name}]

(* update_quote *)

UpdateQuoteCall(t, instrument_name, quote) ==
    ChainCall(t, "update_quote:lock", instrument_name, Some(quote))

UpdateQuoteWrite(t) ==
    /\ ChainWrite(t, "update_quote:lock", "update_quote:return",
                  update_quote(inner, cthreads[t].name, Unwrap(cthreads[t].arg)))
    /\ chist' = [chist EXCEPT !.before = inner, !.views = Observed(inner')]

\* history: the quote of the last update_quote completed for the name, known
\* when the name had been upserted before the call began
UpdateQuoteReturn(t) ==
    /\ ChainWriteReturn(t, "update_quote:return")
    /\ chist' = [chist EXCEPT !.completed[cthreads[t].name] =
                    IF cthreads[t].known THEN cthreads[t].arg
                    ELSE IF cthreads[t].name \in chist.upserted THEN None
                    ELSE chist.completed[cthreads[t].name]]

(* update_order_book *)

UpdateOrderBookCall(t, instrument_name, order_book) ==
    ChainCall(t, "update_order_book:lock", instrument_name, Some(order_book))

UpdateOrderBookWrite(t) ==
    /\ ChainWrite(t, "update_order_book:lock", "update_order_book:return",
                  update_order_book(inner, cthreads[t].name, Unwrap(cthreads[t].arg)))
    /\ chist' = [chist EXCEPT !.before = inner, !.views = Observed(inner')]

UpdateOrderBookReturn(t) ==
    /\ ChainWriteReturn(t, "update_order_book:return")
    /\ UNCHANGED chist

(* snapshot *)

SnapshotCall(t) == ChainCall(t, "snapshot:lock", "", None)

\* let guard = self.inner.read();
SnapshotLock(t) ==
    /\ cthreads[t].pc = "snapshot:lock"
    /\ ReadLockFree
    /\ rwlock' = [rwlock EXCEPT !.readers = rwlock.readers \cup {t}]
    /\ cthreads' = [cthreads EXCEPT ![t].pc = "snapshot:clone",
                                    ![t].expect = chist.completed]
    /\ chist' = [chist EXCEPT !.views[t] = {inner}]
    /\ UNCHANGED inner

\* guard.values().cloned(): the next value, whichever the map yields
SnapshotClone(t) ==
    /\ cthreads[t].pc = "snapshot:clone"
    /\ \E n \in DOMAIN inner \ Cloned(t) :
          cthreads' = [cthreads EXCEPT
                         ![t].instruments = Append(cthreads[t].instruments, inner[n])]
    /\ UNCHANGED <<inner, rwlock, chist>>

\* .collect(): the iterator is exhausted; ChainSnapshot { timestamp, instruments }
SnapshotCollect(t) ==
    /\ cthreads[t].pc = "snapshot:clone"
    /\ DOMAIN inner \ Cloned(t) = {}
    /\ cthreads' = [cthreads EXCEPT ![t].pc = "snapshot:return"]
    /\ UNCHANGED <<inner, rwlock, chist>>

\* the read guard is dropped
SnapshotReturn(t) ==
    /\ cthreads[t].pc = "snapshot:return"
    /\ rwlock' = [rwlock EXCEPT !.readers = rwlock.readers \ {t}]
    /\ cthreads' = [cthreads EXCEPT ![t] = ChainThreadIdle]
    /\ chist' = [chist EXCEPT !.views[t] = {}]
    /\ UNCHANGED inner

(* stats *)

\* the fold over guard.values() and guard.len(); instruments_fresh_10s compares
\* timestamps, which are not modelled
ChainStats(map) ==
    [instrument_count |-> Cardinality(DOMAIN map),
     instruments_with_quotes |->
        Cardinality({n \in DOMAIN map :
                        IsSome(map[n].quote.best_bid) \/ IsSome(map[n].quote.best_ask)}),
     bid_levels |-> Cardinality({n \in DOMAIN map : IsSome(map[n].quote.best_bid)}),
     ask_levels |-> Cardinality({n \in DOMAIN map : IsSome(map[n].quote.best_ask)})]

StatsCall(t) == ChainCall(t, "stats:lock", "", None)

\* let guard = self.inner.read(); and the fold, which runs under the guard
StatsLock(t) ==
    /\ cthreads[t].pc = "stats:lock"
    /\ ReadLockFree
    /\ rwlock' = [rwlock EXCEPT !.readers = rwlock.readers \cup {t}]
    /\ cthreads' = [cthreads EXCEPT ![t].pc = "stats:return",
                                    ![t].stats = Some(ChainStats(inner))]
    /\ UNCHANGED <<inner, chist>>

\* the read guard is dropped
StatsReturn(t) ==
    /\ cthreads[t].pc = "stats:return"
    /\ rwlock' = [rwlock EXCEPT !.readers = rwlock.readers \ {t}]
    /\ cthreads' = [cthreads EXCEPT ![t] = ChainThreadIdle]
    /\ UNCHANGED <<inner, chist>>

InitChain ==
    /\ ScanIdle
    /\ FeeIdle
    /\ ExecIdle
    /\ MainIdle
    /\ config = Config(20000, 0, 3, FALSE, AllStrategies, 1)
    /\ RiskIdle
    /\ inner = <<>>
    /\ rwlock = [writer |-> None, readers |-> {}]
    /\ cthreads = [t \in ChainThreads |-> ChainThreadIdle]
    /\ chist = [calls |-> 0, before |-> <<>>, ever |-> {}, upserted |-> {},
                completed |-> [n \in ChainNames |-> None],
                views |-> [t \in ChainThreads |-> {}]]

NextChain ==
    /\ \E t \in ChainThreads :
          \/ \E instrument \in ChainInstruments : UpsertInstrumentCall(t, instrument)
          \/ UpsertInstrumentWrite(t)
          \/ UpsertInstrumentReturn(t)
          \/ \E n \in ChainNames, quote \in ChainQuotes : UpdateQuoteCall(t, n, quote)
          \/ UpdateQuoteWrite(t)
          \/ UpdateQuoteReturn(t)
          \/ \E n \in ChainNames, book \in ChainBooks : UpdateOrderBookCall(t, n, book)
          \/ UpdateOrderBookWrite(t)
          \/ UpdateOrderBookReturn(t)
          \/ SnapshotCall(t)
          \/ SnapshotLock(t)
          \/ SnapshotClone(t)
          \/ SnapshotCollect(t)
          \/ SnapshotReturn(t)
          \/ StatsCall(t)
          \/ StatsLock(t)
          \/ StatsReturn(t)
    /\ UNCHANGED <<scan_vars, risk_vars, fee_vars, exec_vars, main>>

SpecChain == InitChain /\ [][NextChain]_vars

(* Claims about the option chain store *)

\* the entry a returned snapshot holds for name n
EntryFor(t, n) ==
    CHOOSE e \in {cthreads[t].instruments[k] : k \in 1..Len(cthreads[t].instruments)} :
        e.instrument.instrument_name = n

\* the instruments vector of a snapshot as a map from names
AsMap(t) == [n \in Cloned(t) |-> EntryFor(t, n)]

\* C7: a snapshot taken after update_quote(n, q) completed holds, for an upserted
\* name n, the quote of the last update_quote(n, _) completed before it.
C7_SnapshotSeesLastQuote ==
    \A t \in ChainThreads :
        cthreads[t].pc = "snapshot:return" =>
            \A n \in ChainNames :
                IsSome(cthreads[t].expect[n]) =>
                    /\ n \in Cloned(t)
                    /\ EntryFor(t, n).quote = Unwrap(cthreads[t].expect[n])

\* a snapshot that holds the second of two quotes written to a name
C7_Witness ==
    \E t \in ChainThreads, n \in ChainNames :
        /\ cthreads[t].pc = "snapshot:return"
        /\ IsSome(cthreads[t].expect[n])
        /\ chist.before # <<>>
        /\ n \in DOMAIN chist.before
        /\ chist.before[n].quote \notin {EmptyQuote, Unwrap(cthreads[t].expect[n])}

\* a snapshot that holds the quote of one name beside the entry of another
C7_OtherName ==
    \E t \in ChainThreads, n \in ChainNames :
        /\ cthreads[t].pc = "snapshot:return"
        /\ IsSome(cthreads[t].expect[n])
        /\ Cloned(t) = ChainNames

\* C8: the entries snapshot returns are the whole store as it was at one instant
\* between the call and the return, each name once.
C8_SnapshotPointInTime ==
    \A t \in ChainThreads :
        cthreads[t].pc = "snapshot:return" =>
            /\ Len(cthreads[t].instruments) = Cardinality(Cloned(t))
            /\ \E view \in chist.views[t] :
                  /\ DOMAIN view = Cloned(t)
                  /\ \A n \in Cloned(t) : view[n] = EntryFor(t, n)

\* a snapshot of two entries returns while a writer waits for the lock
C8_Witness ==
    \E t, u \in ChainThreads :
        /\ cthreads[t].pc = "snapshot:return"
        /\ Len(cthreads[t].instruments) = Cardinality(ChainNames)
        /\ cthreads[u].pc = "update_quote:lock"
        /\ cthreads[u].known

\* the store differs from `before` at most in entry n, and there at most in
\* the fields other than those of `kept`
OnlyEntryChanged(n, kept) ==
    /\ DOMAIN inner = DOMAIN chist.before
    /\ \A m \in DOMAIN inner :
          IF m # n THEN inner[m] = chist.before[m]
          ELSE \A f \in kept : inner[m][f] = chist.before[m][f]

\* C9: update_quote and update_order_book with an unknown name leave the store
\* unchanged; with a known name they replace only the quote, respectively only
\* the order book, of that entry.
C9_UpdateFrame ==
    \A t \in ChainThreads :
        /\ cthreads[t].pc = "update_quote:return" =>
              IF cthreads[t].name \in DOMAIN chist.before
              THEN /\ OnlyEntryChanged(cthreads[t].name, {"instrument", "order_book"})
                   /\ inner[cthreads[t].name].quote = Unwrap(cthreads[t].arg)
              ELSE inner = chist.before
        /\ cthreads[t].pc = "update_order_book:return" =>
              IF cthreads[t].name \in DOMAIN chist.before
              THEN /\ OnlyEntryChanged(cthreads[t].name, {"instrument", "quote"})
                   /\ inner[cthreads[t].name].order_book = cthreads[t].arg
              ELSE inner = chist.before

\* an order book stored on an entry that carries a quote, beside another entry
C9_Witness ==
    \E t \in ChainThreads :
        /\ cthreads[t].pc = "update_order_book:return"
        /\ cthreads[t].name \in DOMAIN chist.before
        /\ chist.before[cthreads[t].name].quote # EmptyQuote
        /\ chist.before[cthreads[t].name].order_book = None
        /\ DOMAIN chist.before = ChainNames

\* update_quote replaced a different quote; an update found its name unknown
C9_QuoteReplaced ==
    \E t \in ChainThreads :
        /\ cthreads[t].pc = "update_quote:return"
        /\ cthreads[t].name \in DOMAIN chist.before
        /\ chist.before[cthreads[t].name].quote \notin {EmptyQuote, Unwrap(cthreads[t].arg)}

C9_UnknownName ==
    \E t \in ChainThreads :
        /\ cthreads[t].pc \in {"update_quote:return", "update_order_book:return"}
        /\ chist.before # <<>>
        /\ cthreads[t].name \notin DOMAIN chist.before

\* C10: upsert_instrument of a new name adds one entry with no bid, no ask,
\* index_price 0 and no order book; of a present name it replaces the instrument
\* only; the store holds one entry for each name ever upserted.
C10_UpsertFrame ==
    /\ \A t \in ChainThreads :
          cthreads[t].pc = "upsert_instrument:return" =>
              /\ DOMAIN inner = DOMAIN chist.before \cup {cthreads[t].name}
              /\ \A m \in DOMAIN chist.before \ {cthreads[t].name} :
                    inner[m] = chist.before[m]
              /\ inner[cthreads[t].name].instrument = Unwrap(cthreads[t].arg)
              /\ IF cthreads[t].name \in DOMAIN chist.before
                 THEN /\ inner[cthreads[t].name].quote = chist.before[cthreads[t].name].quote
                      /\ inner[cthreads[t].name].order_book =
                            chist.before[cthreads[t].name].order_book
                 ELSE /\ inner[cthreads[t].name].quote.best_bid = None
                      /\ inner[cthreads[t].name].quote.best_ask = None
                      /\ inner[cthreads[t].name].quote.index_price = 0
                      /\ inner[cthreads[t].name].order_book = None
    /\ DOMAIN inner = chist.ever
    /\ \A n \in DOMAIN inner : inner[n].instrument.instrument_name = n

\* new metadata upserted over an entry that carries a quote and an order book
C10_Witness ==
    \E t \in ChainThreads :
        /\ cthreads[t].pc = "upsert_instrument:return"
        /\ cthreads[t].name \in DOMAIN chist.before
        /\ chist.before[cthreads[t].name].instrument # Unwrap(cthreads[t].arg)
        /\ chist.before[cthreads[t].name].quote # EmptyQuote
        /\ chist.before[cthreads[t].name].order_book # None

\* a second name is added beside an entry that carries a quote
C10_NewName ==
    \E t \in ChainThreads :
        /\ cthreads[t].pc = "upsert_instrument:return"
        /\ chist.before # <<>>
        /\ cthreads[t].name \notin DOMAIN chist.before
        /\ \E m \in DOMAIN chist.before : chist.before[m].quote # EmptyQuote

----------------------------------------------------------------------------
(* Chain store and risk gate together: every thread calls operations of    *)
(* either object, one at a time (main.rs calls them in sequence).  The     *)
(* locks are parking_lot's, which hand a lock over to a waiting thread     *)
(* eventually; a thread that is scheduled keeps taking steps.              *)

LockThreads == RiskThreads \cap ChainThreads

\* the steps of the risk-gate operation thread t is in
RiskRun(t) ==
    \/ ApproveLock(t)
    \/ ApproveMaxCombos(t)
    \/ ApproveTicket(t)
    \/ ApprovePnl(t)
    \/ ApproveIncrement(t)
    \/ ApproveReturn(t)
    \/ ReleaseLock(t)
    \/ ReleaseDecrement(t)
    \/ ReleaseReturn(t)
    \/ RecordPnlLock(t)
    \/ RecordPnlUpdate(t)
    \/ RecordPnlReturn(t)

\* the steps of the chain-store operation thread t is in
ChainRun(t) ==
    \/ UpsertInstrumentWrite(t)
    \/ UpsertInstrumentReturn(t)
    \/ UpdateQuoteWrite(t)
    \/ UpdateQuoteReturn(t)
    \/ UpdateOrderBookWrite(t)
    \/ UpdateOrderBookReturn(t)
    \/ SnapshotLock(t)
    \/ SnapshotClone(t)
    \/ SnapshotCollect(t)
    \/ SnapshotReturn(t)
    \/ StatsLock(t)
    \/ StatsReturn(t)

RiskInvoke(t) ==
    /\ cthreads[t].pc = "idle"
    /\ \/ ApproveCall(t, config.max_ticket_usd * SizeDen)
       \/ ReleaseCall(t)
       \/ RecordPnlCall(t, -1)

ChainInvoke(t) ==
    /\ rthreads[t].pc = "idle"
    /\ \/ UpsertInstrumentCall(t, UC100)
       \/ \E quote \in ChainQuotes : UpdateQuoteCall(t, UC100.instrument_name, quote)
       \/ \E book \in ChainBooks : UpdateOrderBookCall(t, UC100.instrument_name, book)
       \/ SnapshotCall(t)
       \/ StatsCall(t)

RiskOperation(t) == (RiskInvoke(t) \/ RiskRun(t)) /\ UNCHANGED <<scan_vars, chain_vars, fee_vars, exec_vars, main>>

ChainOperation(t) == (ChainInvoke(t) \/ ChainRun(t)) /\ UNCHANGED <<scan_vars, risk_vars, fee_vars, exec_vars, main>>

InitLocks ==
    /\ ScanIdle
    /\ FeeIdle
    /\ ExecIdle
    /\ MainIdle
    /\ config = Config(20000, 0, 3, FALSE, AllStrategies, 1)
    /\ risk_state = [live_combos |-> 0, ewma_num |-> 0, ewma_exp |-> 0]
    /\ risk_mutex = None
    /\ rthreads = [t \in RiskThreads |-> RiskThreadIdle]
    /\ inner = <<>>
    /\ rwlock = [writer |-> None, readers |-> {}]
    /\ cthreads = [t \in ChainThreads |-> ChainThreadIdle]
    /\ chist = [calls |-> 0, before |-> <<>>, ever |-> {}, upserted |-> {},
                completed |-> [n \in ChainNames |-> None],
                views |-> [t \in ChainThreads |-> {}]]

NextLocks == \E t \in LockThreads : RiskOperation(t) \/ ChainOperation(t)

\* a thread inside an operation takes its next step, and gets the lock it
\* waits for when the lock keeps becoming free
FairLocks ==
    \A t \in LockThreads :
        /\ SF_vars(RiskRun(t) /\ UNCHANGED <<scan_vars, chain_vars, fee_vars, exec_vars, main>>)
        /\ SF_vars(ChainRun(t) /\ UNCHANGED <<scan_vars, risk_vars, fee_vars, exec_vars, main>>)

SpecLocks == InitLocks /\ [][NextLocks]_vars /\ FairLocks

(* Claims about the locks *)

HoldsChainLock(t) == rwlock.writer = Some(t) \/ t \in rwlock.readers

HoldsRiskLock(t) == risk_mutex = Some(t)

\* where an operation is between taking its lock and returning
ChainLockedPcs ==
    {"upsert_instrument:return", "update_quote:return", "update_order_book:return",
     "snapshot:clone", "snapshot:return", "stats:return"}

RiskLockedPcs ==
    {"approve:max_combos", "approve:ticket", "approve:pnl", "approve:increment",
     "approve:return", "release:decrement", "release:return",
     "record_pnl:update", "record_pnl:return"}

\* an invoked operation holds its own lock from the acquisition to the return,
\* holds no lock before and after, and never the lock of the other object
LockDiscipline ==
    \A t \in LockThreads :
        /\ HoldsChainLock(t) <=> cthreads[t].pc \in ChainLockedPcs
        /\ HoldsRiskLock(t) <=> rthreads[t].pc \in RiskLockedPcs
        /\ ~(rwlock.writer = Some(t) /\ t \in rwlock.readers)
        /\ ~(HoldsChainLock(t) /\ HoldsRiskLock(t))

Invoked(t) == cthreads[t].pc # "idle" \/ rthreads[t].pc # "idle"

Returned(t) == cthreads[t].pc = "idle" /\ rthreads[t].pc = "idle"

\* C11: every chain-store and risk-gate operation takes exactly one lock and
\* releases it before it returns, no thread holds both locks, and with fair
\* scheduling every invoked operation returns.
C11_NoOperationBlocks ==
    /\ []LockDiscipline
    /\ \A t \in LockThreads : Invoked(t) ~> Returned(t)

\* a writer waits for the chain lock that a reader holds
C11_Witness ==
    \E t, u \in LockThreads :
        /\ cthreads[t].pc = "update_quote:lock"
        /\ cthreads[u].pc = "stats:return"
        /\ rwlock.readers = {u}

\* both locks are held, by different threads; a thread waits for the risk lock
C11_BothLocksHeld ==
    \E t, u \in LockThreads : HoldsChainLock(t) /\ HoldsRiskLock(u)

C11_RiskLockContended ==
    \E t, u \in LockThreads :
        /\ rthreads[t].pc \in {"approve:lock", "release:lock", "record_pnl:lock"}
        /\ HoldsRiskLock(u)

----------------------------------------------------------------------------
(* FeeEngine::compute on its own: a context is drawn, compute runs once.    *)
(* The legs of a context share the index price, as the legs of one combo   *)
(* on one underlying do.                                                   *)

MaxFeeLegs == 2     \* legs of a fee context

FeePrices == {0, 2, 40}       \* option prices, in 1/PriceDen
FeeIndexes == {10}            \* index prices
FeeContracts == {0, -2}       \* signed sizes, in 1/SizeDen

LegShapes ==
    [side : {"Buy", "Sell"}, settlement : {"Coin", "Usdc"}, option_price : FeePrices,
     contracts : FeeContracts, is_daily : BOOLEAN]

FeeLeg(shape, index_price) ==
    [instrument_name |-> "LEG", side |-> shape.side, settlement |-> shape.settlement,
     role |-> "Taker", option_price |-> shape.option_price, index_price |-> index_price,
     contracts |-> shape.contracts, contract_size |-> 1, expiry |-> 0,
     is_daily |-> shape.is_daily]

FeeContexts ==
    {[legs |-> [k \in DOMAIN shapes |-> FeeLeg(shapes[k], index_price)],
      hold_to_expiry |-> hold_to_expiry] :
        shapes \in UNION {[1..n -> LegShapes] : n \in 0..MaxFeeLegs},
        index_price \in FeeIndexes, hold_to_expiry \in BOOLEAN}

InitFees ==
    /\ ScanIdle
    /\ config = Config(20000, 0, 3, FALSE, AllStrategies, 1)
    /\ RiskIdle
    /\ ChainIdle
    /\ ExecIdle
    /\ MainIdle
    /\ fee_ctx \in FeeContexts
    /\ fee_result = None

\* engine.compute(ctx); leg_fees records the vector of lines 43-47, which the
\* discount then overwrites
Compute ==
    /\ fee_result = None
    /\ fee_result' = Some([returned |-> compute(fee_ctx),
                           leg_fees |-> TradeFees(fee_ctx)])
    /\ UNCHANGED <<fee_ctx, scan_vars, risk_vars, chain_vars, exec_vars, main>>

NextFees == Compute

SpecFees == InitFees /\ [][NextFees]_vars

(* Claims about the fee engine *)

Computed == IsSome(fee_result)

FeeResult == Unwrap(fee_result).returned

\* the fee of every leg before the discount
PreDiscount == Unwrap(fee_result).leg_fees

LegsOf(side) == {k \in 1..Len(fee_ctx.legs) : fee_ctx.legs[k].side = side}

RECURSIVE SumOver(_, _)
SumOver(f, keys) ==
    IF keys = {} THEN 0
    ELSE LET k == CHOOSE x \in keys : TRUE IN f[k] + SumOver(f, keys \ {k})

PreTotalUsd(side) ==
    SumOver([k \in 1..Len(PreDiscount) |-> PreDiscount[k].trade_fee_usd], LegsOf(side))

PreTotalNative(side) ==
    SumOver([k \in 1..Len(PreDiscount) |-> PreDiscount[k].trade_fee_native], LegsOf(side))

Other(side) == IF side = "Buy" THEN "Sell" ELSE "Buy"

\* the legs of a side are free of trade fees in the returned breakdown
SideIsFree(side) ==
    \A k \in LegsOf(side) :
        FeeResult.legs[k].trade_fee_native = 0 /\ FeeResult.legs[k].trade_fee_usd = 0

\* the discount waives `side`: its legs are free, the discount is what they
\* would have paid, the other legs pay what was computed for them
Waives(side) ==
    /\ SideIsFree(side)
    /\ FeeResult.combo_discount = PreTotalNative(side)
    /\ FeeResult.combo_discount_usd = PreTotalUsd(side)
    /\ \A k \in LegsOf(Other(side)) : FeeResult.legs[k] = PreDiscount[k]

\* C12: compute waives the Buy side when its pre-discount USD total is smaller
\* than or equal to the Sell side's, and the Sell side otherwise.
C12_WaivesCheaperSide ==
    (Computed /\ FeeResult.ok) =>
        /\ Len(FeeResult.legs) = Len(fee_ctx.legs)
        /\ IF PreTotalUsd("Buy") <= PreTotalUsd("Sell") THEN Waives("Buy") ELSE Waives("Sell")

\* a tie between two sides that both owe a fee
C12_Witness ==
    /\ Computed
    /\ FeeResult.ok
    /\ PreTotalUsd("Buy") = PreTotalUsd("Sell")
    /\ PreTotalUsd("Buy") > 0
    /\ FeeResult.combo_discount_usd > 0

\* the Sell side is the cheaper one
C12_SellWaived ==
    /\ Computed
    /\ FeeResult.ok
    /\ PreTotalUsd("Buy") > PreTotalUsd("Sell")
    /\ PreTotalUsd("Sell") > 0

SideHasFee(side) ==
    \E k \in LegsOf(side) :
        FeeResult.legs[k].trade_fee_native # 0 \/ FeeResult.legs[k].trade_fee_usd # 0

SideSumsToZero(side) ==
    /\ SumOver([k \in 1..Len(FeeResult.legs) |-> FeeResult.legs[k].trade_fee_native],
               LegsOf(side)) = 0
    /\ SumOver([k \in 1..Len(FeeResult.legs) |-> FeeResult.legs[k].trade_fee_usd],
               LegsOf(side)) = 0

\* C13 as stated: in every returned breakdown exactly one side has nonzero leg
\* fees and the other side's fees sum to zero.
C13_ExactlyOneSidePays ==
    (Computed /\ FeeResult.ok) =>
        \E side \in {"Buy", "Sell"} :
            SideHasFee(side) /\ ~SideHasFee(Other(side)) /\ SideSumsToZero(Other(side))

\* C13 amended: at most one side has nonzero leg fees, the other side's legs
\* are all zero; a side pays exactly when it is not waived and owed a fee.
C13_AtMostOneSidePays ==
    (Computed /\ FeeResult.ok) =>
        /\ \E side \in {"Buy", "Sell"} :
              ~SideHasFee(side) /\ SideSumsToZero(side)
        /\ ~(SideHasFee("Buy") /\ SideHasFee("Sell"))
        /\ (SideHasFee("Buy") \/ SideHasFee("Sell")) <=>
              \E k \in 1..Len(PreDiscount) :
                  /\ PreDiscount[k].trade_fee_usd # 0 \/ PreDiscount[k].trade_fee_native # 0
                  /\ PreDiscount[k].side =
                        (IF PreTotalUsd("Buy") <= PreTotalUsd("Sell") THEN "Sell" ELSE "Buy")

\* both sides owed a fee and one of them pays
C13_Witness ==
    /\ Computed
    /\ FeeResult.ok
    /\ PreTotalUsd("Buy") > 0
    /\ PreTotalUsd("Sell") > 0
    /\ SideHasFee("Sell")
    /\ ~SideHasFee("Buy")

\* legs that owe nothing: neither side pays
C13_NobodyPays ==
    /\ Computed
    /\ FeeResult.ok
    /\ ~SideHasFee("Buy")
    /\ ~SideHasFee("Sell")

Mixed == \E j, k \in 1..Len(fee_ctx.legs) : fee_ctx.legs[j].settlement # fee_ctx.legs[k].settlement

\* C14: compute returns an error, and nothing else, for an empty leg list and
\* for legs of more than one settlement, and a breakdown for every other context.
C14_RejectsInvalidContext ==
    Computed =>
        /\ FeeResult.ok <=> (Len(fee_ctx.legs) > 0 /\ ~Mixed)
        /\ ~FeeResult.ok => DOMAIN FeeResult = {"ok"}
        /\ FeeResult.ok => Len(FeeResult.legs) = Len(fee_ctx.legs)

\* legs of two settlements are rejected
C14_Witness ==
    /\ Computed
    /\ Mixed
    /\ ~FeeResult.ok

C14_EmptyRejected ==
    /\ Computed
    /\ Len(fee_ctx.legs) = 0
    /\ ~FeeResult.ok

\* the reference fee per unit of size, times 10^4: min(0.0003 [x index_price],
\* 0.125 x option_price)
ReferencePerContractE4(leg) ==
    Min(IF leg.settlement = "Coin" THEN TradeFeeRateE4 * PerContract
        ELSE TradeFeeRateE4 * leg.index_price * PerContract,
        leg.option_price * (10000 \div FeeCapDen) * (PerContract \div PriceDen))

\* C15: before the discount a leg's fee is min(0.0003, 0.125 x option_price)
\* x |contracts| x contract_size in coin and that times the index in USD (Coin),
\* min(0.0003 x index_price, 0.125 x option_price) x |contracts| x contract_size
\* in both (Usdc); per contract it is at most 12.5% of the option price.
C15_TradeFeeFormula ==
    (Computed /\ FeeResult.ok) =>
        \A k \in 1..Len(fee_ctx.legs) :
            /\ 10000 * PreDiscount[k].trade_fee_native =
                  ReferencePerContractE4(fee_ctx.legs[k])
                    * Abs(fee_ctx.legs[k].contracts) * fee_ctx.legs[k].contract_size
            /\ PreDiscount[k].trade_fee_usd =
                  IF fee_ctx.legs[k].settlement = "Coin"
                  THEN PreDiscount[k].trade_fee_native * fee_ctx.legs[k].index_price
                  ELSE PreDiscount[k].trade_fee_native
            /\ FeeCapDen * PriceDen * PreDiscount[k].trade_fee_native <=
                  fee_ctx.legs[k].option_price * PerContract
                    * Abs(fee_ctx.legs[k].contracts) * fee_ctx.legs[k].contract_size

\* one leg is charged the rate, another the cap of 12.5% of its price
C15_Witness ==
    /\ Computed
    /\ FeeResult.ok
    /\ \E j, k \in 1..Len(fee_ctx.legs) :
          /\ fee_ctx.legs[j].contracts # 0
          /\ fee_ctx.legs[k].contracts # 0
          /\ 10000 * PreDiscount[j].trade_fee_native
                < fee_ctx.legs[j].option_price * (10000 \div FeeCapDen)
                    * (PerContract \div PriceDen) * Abs(fee_ctx.legs[j].contracts)
          /\ FeeCapDen * PriceDen * PreDiscount[k].trade_fee_native =
                fee_ctx.legs[k].option_price * PerContract * Abs(fee_ctx.legs[k].contracts)
          /\ PreDiscount[k].trade_fee_native > 0

\* the option value of a leg in USD, in money units
OptionValueUsd(leg) ==
    leg.option_price * (PerContract \div PriceDen) * Abs(leg.contracts) * leg.contract_size
        * (IF leg.settlement = "Coin" THEN leg.index_price ELSE 1)

\* min(0.00015 x index_price x |contracts| x contract_size, 0.125 x option value)
ReferenceDelivery(leg) ==
    Min((DeliveryRateE5 * leg.index_price * Abs(leg.contracts) * leg.contract_size
            * PerContract) \div 100000,
        OptionValueUsd(leg) \div FeeCapDen)

Charged == {k \in 1..Len(fee_ctx.legs) : fee_ctx.hold_to_expiry /\ ~fee_ctx.legs[k].is_daily}

\* C16: the delivery fee is the sum, over the legs that are not daily and only
\* when held to expiry, of min(0.00015 x notional, 0.125 x option value); it is
\* at most 12.5% of the option value of those legs and the discount leaves it alone.
C16_DeliveryFee ==
    (Computed /\ FeeResult.ok) =>
        /\ FeeResult.delivery_fee_usd =
              SumOver([k \in 1..Len(fee_ctx.legs) |-> ReferenceDelivery(fee_ctx.legs[k])],
                      Charged)
        /\ FeeCapDen * FeeResult.delivery_fee_usd <=
              SumOver([k \in 1..Len(fee_ctx.legs) |-> OptionValueUsd(fee_ctx.legs[k])],
                      Charged)
        /\ FeeResult.total_usd =
              SumOver([k \in 1..Len(FeeResult.legs) |-> FeeResult.legs[k].trade_fee_usd],
                      1..Len(FeeResult.legs))
                + FeeResult.delivery_fee_usd

\* held to expiry with a daily leg and a leg that is charged, under a discount
C16_Witness ==
    /\ Computed
    /\ FeeResult.ok
    /\ fee_ctx.hold_to_expiry
    /\ \E j, k \in 1..Len(fee_ctx.legs) :
          fee_ctx.legs[j].is_daily /\ ~fee_ctx.legs[k].is_daily
    /\ FeeResult.delivery_fee_usd > 0
    /\ FeeResult.combo_discount_usd > 0

\* nothing is charged when not held to expiry
C16_NotHeld ==
    /\ Computed
    /\ FeeResult.ok
    /\ ~fee_ctx.hold_to_expiry
    /\ \E k \in 1..Len(fee_ctx.legs) :
          ~fee_ctx.legs[k].is_daily /\ ReferenceDelivery(fee_ctx.legs[k]) > 0
    /\ FeeResult.delivery_fee_usd = 0

----------------------------------------------------------------------------
(* Execution planner: exec/mod.rs                                           *)
(*                                                                          *)
(* plan is called, one call after the other as in main.rs, for one          *)
(* opportunity against one venue.  The venue is the MockComboApi of the     *)
(* crate, each of whose calls may also fail, as a call of DeribitHttpClient *)
(* can.  A combo id "combo-n" is <<"combo", n>>; a combo name               *)
(* "{strategy}-{currency}-{day}-{legs}" is the tuple of its four parts.     *)
(* Of a StrategyOpportunity only the fields plan reads are kept.            *)

MaxPlans == 2      \* calls of plan in one behaviour

\* serde_json::Value, as far as plan looks at it
JsonString(s) == [type |-> "string", value |-> s]
JsonOther(v) == [type |-> "number", value |-> v]

\* Value::get(key)
JsonGet(payload, key) == IF key \in DOMAIN payload THEN Some(payload[key]) ELSE None

\* Value::as_str()
as_str(v) == IF v.type = "string" THEN Some(v.value) ELSE None

\* mutant: the payload is not looked at
existing_id_ignored(opportunity) == None

\* create_payload.get("combo_id").and_then(|v| v.as_str())
existing_id(opportunity) ==
    IF IsSome(JsonGet(opportunity.execution_plan.create_payload, "combo_id"))
    THEN as_str(Unwrap(JsonGet(opportunity.execution_plan.create_payload, "combo_id")))
    ELSE None

\* impl Display for StrategyKind
StrategyText(strategy) ==
    CASE strategy = "Vertical" -> "vertical"
      [] strategy = "Butterfly" -> "butterfly"
      [] strategy = "Calendar" -> "calendar"
      [] strategy = "Box" -> "box"
      [] strategy = "StaleQuote" -> "stale"
      [] strategy = "JellyRoll" -> "jelly"

\* format!("{}-{}-{}-{}", strategy, currency, first expiry as %Y%m%d or "NA", legs.len())
ComboName(opportunity) ==
    <<StrategyText(opportunity.strategy), opportunity.currency,
      IF Len(opportunity.expiry) = 0 THEN "NA" ELSE ToString(opportunity.expiry[1]),
      Len(opportunity.legs)>>

\* mutant: a size equal to the minimum is refused as well
InsufficientDepthInclusive(opportunity, cfg) ==
    opportunity.size_contracts <= cfg.min_depth_contracts * SizeDen

\* opportunity.size_contracts < Decimal::from(self.config.min_depth_contracts)
InsufficientDepth(opportunity, cfg) ==
    opportunity.size_contracts < cfg.min_depth_contracts * SizeDen

\* MockComboApi::create_combo: the vector after the push, and the id returned
MockCombos(combos, name, legs, is_usdc) == Append(combos, <<name, legs, is_usdc>>)

MockComboId(combos) == <<"combo", Len(combos)>>

\* MockComboApi::get_leg_prices
MockPreview(combo_id, amount) == [combo_id |-> combo_id, amount |-> amount, fees |-> 0]

\* mutant: a run that is not a dry run reports the order as submitted
ExecutionReportSubmitting(cfg, combo_id, preview) ==
    [ok |-> TRUE, combo_id |-> Some(combo_id), preview |-> Some(preview),
     submitted |-> ~cfg.dry_run]

\* Ok(ExecutionReport { .. }), the same on both branches of config.dry_run
ExecutionReport(cfg, combo_id, preview) ==
    IF cfg.dry_run
    THEN [ok |-> TRUE, combo_id |-> Some(combo_id), preview |-> Some(preview),
          submitted |-> FALSE]
    ELSE [ok |-> TRUE, combo_id |-> Some(combo_id), preview |-> Some(preview),
          submitted |-> FALSE]

PlanErr(message) == [ok |-> FALSE, error |-> message]

PlanLegs ==
    <<[instrument_name |-> UC100.instrument_name, ratio |-> 1, side |-> "Buy"],
      [instrument_name |-> UC110.instrument_name, ratio |-> 1, side |-> "Sell"]>>

PlanPayloads ==
    { [legs |-> PlanLegs],
      [legs |-> PlanLegs, combo_id |-> JsonString(<<"combo", 7>>)],
      [legs |-> PlanLegs, combo_id |-> JsonOther(7)] }

PlanOpportunities ==
    { [strategy |-> "Vertical", currency |-> "BTC", settlement |-> settlement,
       expiry |-> expiry, legs |-> PlanLegs, size_contracts |-> size_contracts,
       execution_plan |-> [create_payload |-> create_payload, dry_run |-> TRUE]] :
         settlement \in {"Coin", "Usdc"}, expiry \in {<<>>, <<30>>},
         size_contracts \in {1, SizeDen, 2 * SizeDen}, create_payload \in PlanPayloads }

PlanConfigs ==
    { [Config(20000, 0, 3, FALSE, AllStrategies, depth) EXCEPT !.dry_run = dry_run] :
         depth \in {1, 2}, dry_run \in BOOLEAN }

PlanOpp == planner.opportunity

VenueCall(call) == [planner EXCEPT !.calls = Append(planner.calls, call)]

PlanCall ==
    /\ planner.pc = "idle"
    /\ Len(planner.history) < MaxPlans
    /\ planner' = [planner EXCEPT !.pc = "plan:depth", !.combo_id = None,
                                  !.preview = None, !.result = None, !.calls = <<>>]
    /\ UNCHANGED venue

\* if size_contracts < min_depth_contracts { bail!(..) }
PlanDepth ==
    /\ planner.pc = "plan:depth"
    /\ planner' = IF InsufficientDepth(PlanOpp, config)
                  THEN [planner EXCEPT !.pc = "plan:returned",
                           !.result = Some(PlanErr("insufficient depth for planned size"))]
                  ELSE [planner EXCEPT !.pc = "ensure_combo"]
    /\ UNCHANGED venue

\* ensure_combo up to the call of the venue
EnsureCombo ==
    /\ planner.pc = "ensure_combo"
    /\ planner' = IF IsSome(existing_id(PlanOpp))
                  THEN [planner EXCEPT !.pc = "get_leg_prices",
                                       !.combo_id = existing_id(PlanOpp)]
                  ELSE [planner EXCEPT !.pc = "create_combo"]
    /\ UNCHANGED venue

\* self.client.create_combo(&name, &opportunity.legs, is_usdc).await succeeds
CreateComboOk ==
    /\ planner.pc = "create_combo"
    /\ venue' = [venue EXCEPT !.combos =
                    MockCombos(venue.combos, ComboName(PlanOpp), PlanOpp.legs,
                               PlanOpp.settlement = "Usdc")]
    /\ planner' = [VenueCall([op |-> "create_combo", name |-> ComboName(PlanOpp),
                              legs |-> PlanOpp.legs,
                              is_usdc |-> PlanOpp.settlement = "Usdc", ok |-> TRUE])
                      EXCEPT !.pc = "get_leg_prices",
                             !.combo_id = Some(MockComboId(venue'.combos))]

\* it fails, and `?` returns the error from plan
CreateComboErr ==
    /\ planner.pc = "create_combo"
    /\ planner' = [VenueCall([op |-> "create_combo", name |-> ComboName(PlanOpp),
                              legs |-> PlanOpp.legs,
                              is_usdc |-> PlanOpp.settlement = "Usdc", ok |-> FALSE])
                      EXCEPT !.pc = "plan:returned",
                             !.result = Some(PlanErr("create_combo failed"))]
    /\ UNCHANGED venue

\* self.client.get_leg_prices(&combo_id, opportunity.size_contracts).await succeeds
GetLegPricesOk ==
    /\ planner.pc = "get_leg_prices"
    /\ planner' = [VenueCall([op |-> "get_leg_prices",
                              combo_id |-> Unwrap(planner.combo_id),
                              amount |-> PlanOpp.size_contracts, ok |-> TRUE])
                      EXCEPT !.pc = "plan:report",
                             !.preview = Some(MockPreview(Unwrap(planner.combo_id),
                                                          PlanOpp.size_contracts))]
    /\ UNCHANGED venue

\* it fails: .context("failed to preview leg prices")?
GetLegPricesErr ==
    /\ planner.pc = "get_leg_prices"
    /\ planner' = [VenueCall([op |-> "get_leg_prices",
                              combo_id |-> Unwrap(planner.combo_id),
                              amount |-> PlanOpp.size_contracts, ok |-> FALSE])
                      EXCEPT !.pc = "plan:returned",
                             !.result = Some(PlanErr("failed to preview leg prices"))]
    /\ UNCHANGED venue

\* the two returns of Ok(ExecutionReport { .. })
PlanReport ==
    /\ planner.pc = "plan:report"
    /\ planner' = [planner EXCEPT !.pc = "plan:returned",
                      !.result = Some(ExecutionReport(config, Unwrap(planner.combo_id),
                                                      Unwrap(planner.preview)))]
    /\ UNCHANGED venue

\* the caller has the result; history keeps what the call resolved and did
PlanReturn ==
    /\ planner.pc = "plan:returned"
    /\ planner' = [planner EXCEPT !.pc = "idle",
                      !.history = Append(planner.history,
                                         [combo_id |-> planner.combo_id,
                                          calls |-> planner.calls,
                                          combos |-> Len(venue.combos)])]
    /\ UNCHANGED venue

InitExec ==
    /\ ScanIdle
    /\ config \in PlanConfigs
    /\ RiskIdle
    /\ ChainIdle
    /\ FeeIdle
    /\ \E opportunity \in PlanOpportunities :
          planner = [pc |-> "idle", opportunity |-> opportunity, combo_id |-> None,
                     preview |-> None, result |-> None, calls |-> <<>>, history |-> <<>>]
    /\ venue = [combos |-> <<>>]
    /\ MainIdle

NextExec ==
    /\ \/ PlanCall
       \/ PlanDepth
       \/ EnsureCombo
       \/ CreateComboOk
       \/ CreateComboErr
       \/ GetLegPricesOk
       \/ GetLegPricesErr
       \/ PlanReport
       \/ PlanReturn
    /\ UNCHANGED <<scan_input, utc_now, opportunities, phase, previous, config,
                   risk_vars, chain_vars, fee_vars, main>>

SpecExec == InitExec /\ [][NextExec]_vars

(* Claims about the execution planner *)

PlanReturned == planner.pc = "plan:returned"

PlanResult == Unwrap(planner.result)

TooSmall == planner.opportunity.size_contracts < config.min_depth_contracts * SizeDen

CallsOf(op) == {k \in 1..Len(planner.calls) : planner.calls[k].op = op}

\* C17: plan returns an error for size_contracts < min_depth_contracts, and then
\* calls the venue not at all; for a larger or equal size the depth check does
\* not reject.
C17_DepthCheck ==
    /\ TooSmall => (planner.calls = <<>> /\ venue.combos = <<>>)
    /\ PlanReturned =>
          IF TooSmall
          THEN ~PlanResult.ok
          ELSE PlanResult.ok \/ PlanResult.error # "insufficient depth for planned size"

\* a size below the minimum is refused
C17_Witness ==
    /\ PlanReturned
    /\ TooSmall
    /\ ~PlanResult.ok
    /\ Len(planner.history) > 0

\* a size equal to the minimum is planned
C17_AtMinimum ==
    /\ PlanReturned
    /\ planner.opportunity.size_contracts = config.min_depth_contracts * SizeDen
    /\ PlanResult.ok

Payload == planner.opportunity.execution_plan.create_payload

CarriesStringId == "combo_id" \in DOMAIN Payload /\ Payload.combo_id.type = "string"

\* C18: with a string combo_id in the payload create_combo is not called and
\* that id is used; otherwise create_combo is called once, first, with the legs
\* and the Usdc flag; get_leg_prices is called once, after the id is resolved,
\* with the id and size_contracts, and not at all when create_combo failed,
\* in which case plan returns an error.
C18_ResolveThenPreview ==
    (PlanReturned /\ ~TooSmall) =>
        /\ IF CarriesStringId
           THEN /\ CallsOf("create_combo") = {}
                /\ planner.combo_id = Some(Payload.combo_id.value)
           ELSE /\ CallsOf("create_combo") = {1}
                /\ planner.calls[1].legs = planner.opportunity.legs
                /\ planner.calls[1].is_usdc = (planner.opportunity.settlement = "Usdc")
        /\ IF CarriesStringId \/ planner.calls[1].ok
           THEN /\ CallsOf("get_leg_prices") = {Len(planner.calls)}
                /\ planner.calls[Len(planner.calls)].combo_id = Unwrap(planner.combo_id)
                /\ planner.calls[Len(planner.calls)].amount =
                      planner.opportunity.size_contracts
           ELSE /\ CallsOf("get_leg_prices") = {}
                /\ ~PlanResult.ok

\* a combo_id that is not a string: the combo is created, then previewed
C18_Witness ==
    /\ PlanReturned
    /\ "combo_id" \in DOMAIN Payload
    /\ ~CarriesStringId
    /\ Len(planner.calls) = 2
    /\ PlanResult.ok

C18_Reused ==
    /\ PlanReturned
    /\ CarriesStringId
    /\ PlanResult.ok

C18_CreateFailed ==
    /\ PlanReturned
    /\ Len(planner.calls) = 1
    /\ planner.calls[1].op = "create_combo"
    /\ ~planner.calls[1].ok

\* C19: every report of a successful plan has submitted = false, the resolved
\* combo id and the preview, with dry_run on or off; plan calls nothing but
\* create_combo and get_leg_prices.
C19_NeverSubmits ==
    /\ \A k \in 1..Len(planner.calls) :
          planner.calls[k].op \in {"create_combo", "get_leg_prices"}
    /\ (PlanReturned /\ PlanResult.ok) =>
          /\ PlanResult.submitted = FALSE
          /\ IsSome(planner.combo_id)
          /\ PlanResult.combo_id = planner.combo_id
          /\ IsSome(planner.preview)
          /\ PlanResult.preview = planner.preview
          /\ Unwrap(planner.preview).combo_id = Unwrap(planner.combo_id)

\* a report made with dry_run off
C19_Witness ==
    /\ PlanReturned
    /\ PlanResult.ok
    /\ ~config.dry_run
    /\ CallsOf("create_combo") # {}

\* C20: repeated calls of plan for one opportunity resolve to the same combo
\* id, and the repetition creates no further combo at the venue.
C20_Idempotent ==
    \A i, j \in 1..Len(planner.history) :
        (i < j /\ IsSome(planner.history[i].combo_id)
               /\ IsSome(planner.history[j].combo_id)) =>
            /\ planner.history[j].combo_id = planner.history[i].combo_id
            /\ planner.history[j].combos = planner.history[i].combos

----------------------------------------------------------------------------
(* Further properties of the opportunities scan returns *)

\* the snapshot entry a leg names
InstNamed(name) == CHOOSE x \in Insts : x.instrument.instrument_name = name

\* debit_usd: the native debit, times the reference index for Coin
DebitUsd(opp) ==
    IF opp.settlement = "Usdc" THEN opp.total_cost
    ELSE opp.total_cost * opp.reference_index

\* the instrument of a vertical at the lower strike: the leg bought for calls
LowOf(opp) ==
    LET a == InstNamed(opp.legs[1].instrument_name)
        b == InstNamed(opp.legs[2].instrument_name)
    IN  IF a.instrument.strike <= b.instrument.strike THEN a ELSE b

\* C21: every Vertical opportunity produced, with K_low < K_high its two
\* strikes, has total_cost >= 0 and debit_usd <= (K_high - K_low) x
\* size_contracts x contract_size + 0.000001, for Usdc and Coin settlement.
C21_VerticalDebitCapped ==
    phase = "scanned" =>
        \A opp \in Opps :
            opp.strategy = "Vertical" =>
                /\ opp.strikes[1] < opp.strikes[2]
                /\ opp.total_cost >= 0
                \* 0.000001 is below the resolution of the money grid
                /\ DebitUsd(opp) <=
                       (opp.strikes[2] - opp.strikes[1]) * opp.size_contracts
                         * LowOf(opp).instrument.contract_size * PerContract
                         + MoneyDen \div 1000000

\* a coin-settled vertical with a positive debit has been produced
C21_Witness ==
    /\ phase = "scanned"
    /\ \E opp \in Opps :
          opp.strategy = "Vertical" /\ opp.settlement = "Coin" /\ opp.total_cost > 0

\* a usdc-settled vertical, and a pair of strikes whose touches cost more than
\* the strikes are apart
C21_UsdcVertical ==
    /\ phase = "scanned"
    /\ \E opp \in Opps :
          opp.strategy = "Vertical" /\ opp.settlement = "Usdc" /\ opp.total_cost > 0

C21_OverPayout ==
    /\ phase = "scanned"
    /\ \E a, b \in Insts :
          /\ NextStrike(a, b) /\ a.instrument.option_kind = "Call"
          /\ DepthOk(<<CLeg(a, "Buy", 1), CLeg(b, "Sell", 1)>>)
          /\ a.quote.index_price > 0
          /\ (Unwrap(a.quote.best_ask).price - Unwrap(b.quote.best_bid).price)
                > (b.instrument.strike - a.instrument.strike) * PriceDen

\* C22: every Calendar opportunity produced pairs two instruments of one
\* currency, strike, settlement and option_kind with strictly different
\* expiries, selling the earlier expiry and buying the later one; instruments
\* of one expiry, or of opposite option_kind, never form a Calendar.
C22_CalendarPairs ==
    phase = "scanned" =>
        \A opp \in Opps :
            opp.strategy = "Calendar" =>
                LET near == InstNamed(opp.legs[1].instrument_name).instrument
                    far  == InstNamed(opp.legs[2].instrument_name).instrument
                IN  /\ Len(opp.legs) = 2
                    /\ opp.legs[1].side = "Sell" /\ opp.legs[2].side = "Buy"
                    /\ near.currency = far.currency
                    /\ near.strike = far.strike
                    /\ near.settlement_currency = far.settlement_currency
                    /\ near.option_kind = far.option_kind
                    /\ near.expiry < far.expiry

\* a Calendar is produced from a snapshot that also holds a call and a put of
\* one strike and one expiry
C22_Witness ==
    /\ phase = "scanned"
    /\ \E opp \in Opps : opp.strategy = "Calendar"
    /\ \E a, b \in Insts :
          /\ a.instrument.strike = b.instrument.strike
          /\ a.instrument.expiry = b.instrument.expiry
          /\ a.instrument.option_kind # b.instrument.option_kind

\* two instruments of one group and one expiry whose touches give a credit
C22_SameExpiry ==
    /\ phase = "scanned"
    /\ "Calendar" \in config.strategy_filter
    /\ \E a, b \in Insts :
          /\ a # b
          /\ a.instrument.strike = b.instrument.strike
          /\ a.instrument.option_kind = b.instrument.option_kind
          /\ a.instrument.expiry = b.instrument.expiry
          /\ DepthOk(<<CLeg(a, "Sell", 1), CLeg(b, "Buy", 1)>>)
          /\ a.quote.index_price > 0
          /\ Unwrap(a.quote.best_bid).price > Unwrap(b.quote.best_ask).price

\* the touch level a leg consumes: the ask for a buy, the bid for a sell
TouchLevel(leg) ==
    IF leg.side = "Buy" THEN InstNamed(leg.instrument_name).quote.best_ask
    ELSE InstNamed(leg.instrument_name).quote.best_bid

\* size_contracts x ratio of every leg is within the amount of its touch
WithinDepth(opp) ==
    \A k \in 1..Len(opp.legs) :
        /\ IsSome(TouchLevel(opp.legs[k]))
        /\ opp.size_contracts * opp.legs[k].ratio <= Unwrap(TouchLevel(opp.legs[k])).amount

\* reference_index x size_contracts x contract_size of the base leg is within
\* max_ticket_usd, and so is notional_usd
WithinTicket(opp) ==
    /\ opp.reference_index * opp.size_contracts
          * InstNamed(opp.legs[1].instrument_name).instrument.contract_size
            <= config.max_ticket_usd * SizeDen
    /\ opp.notional_usd <= config.max_ticket_usd * SizeDen

\* C23: for every opportunity produced the size exceeds neither the depth nor
\* the ticket cap: size_contracts x ratio <= the amount of the touch of each
\* leg, and reference_index x size_contracts x contract_size of the base leg
\* <= max_ticket_usd, so that notional_usd <= max_ticket_usd and the risk
\* gate's ticket condition never rejects an opportunity scan produced.
C23_SizeWithinDepthAndTicket ==
    phase = "scanned" =>
        \A opp \in Opps :
            /\ WithinDepth(opp)
            /\ WithinTicket(opp)
            /\ ~OverTicket(opp.notional_usd, config)

\* the depth half holds of every opportunity
C23_SizeWithinDepth ==
    phase = "scanned" => \A opp \in Opps : WithinDepth(opp)

\* a butterfly sized by half the amount of the middle bid
C23_ButterflyAtDepth ==
    /\ phase = "scanned"
    /\ \E opp \in Opps :
          /\ opp.strategy = "Butterfly"
          /\ 2 * opp.size_contracts = Unwrap(TouchLevel(opp.legs[2])).amount

\* an opportunity sized by a ticket cap that the division gives exactly
C23_ExactCap ==
    /\ phase = "scanned"
    /\ \E opp \in Opps :
          /\ opp.notional_usd = config.max_ticket_usd * SizeDen
          /\ opp.size_contracts < Unwrap(TouchLevel(opp.legs[1])).amount

\* C24: a combination is skipped when an index is zero: no detector emits an
\* opportunity for a combination whose base leg, or any leg, has
\* quote.index_price = 0, so every opportunity has reference_index > 0.
C24_ZeroIndexSkipped ==
    phase = "scanned" =>
        \A opp \in Opps :
            /\ opp.reference_index > 0
            /\ \A k \in 1..Len(opp.legs) :
                  InstNamed(opp.legs[k].instrument_name).quote.index_price > 0

\* the base leg alone: every opportunity has reference_index > 0
C24_ReferenceIndexPositive ==
    phase = "scanned" => \A opp \in Opps : opp.reference_index > 0

\* C25: scan emits only opportunities whose strategy is in
\* config.strategy_filter; a detector whose kind is not in the filter
\* contributes nothing, no opportunity has strategy StaleQuote, and a filter
\* that holds only StaleQuote yields an empty result for every snapshot.
C25_OnlyFilteredStrategies ==
    phase = "scanned" =>
        /\ \A opp \in Opps :
              opp.strategy \in config.strategy_filter /\ opp.strategy # "StaleQuote"
        /\ config.strategy_filter = {"StaleQuote"} => opportunities = <<>>

\* a scan that returns something while a butterfly with enough depth at its
\* touches is in the snapshot and Butterfly is not in the filter
C25_Witness ==
    /\ phase = "scanned"
    /\ opportunities # <<>>
    /\ "Butterfly" \notin config.strategy_filter
    /\ "StaleQuote" \in config.strategy_filter
    /\ \E legs \in Combinations("Butterfly") :
          /\ DepthOk(legs)
          /\ CostOf(legs, SizeOf(legs)) < 0

\* a scan under the filter {StaleQuote} of a snapshot that holds a vertical
\* with a positive edge
C25_StaleQuoteOnly ==
    /\ phase = "scanned"
    /\ config.strategy_filter = {"StaleQuote"}
    /\ \E legs \in Combinations("Vertical") :
          /\ DepthOk(legs)
          /\ CostOf(legs, SizeOf(legs)) >= 0
          /\ PayoutOf("Vertical", legs, SizeOf(legs)) - CostOf(legs, SizeOf(legs))
                - FeesOf(legs, SizeOf(legs)) > MoneyDen

\* the instrument names of a snapshot are pairwise distinct
DistinctNames ==
    \A j, k \in 1..Len(scan_input) :
        scan_input[j].instrument.instrument_name = scan_input[k].instrument.instrument_name
            => j = k

\* the legs name pairwise distinct instruments, each with a ratio >= 1
DistinctLegs(opp) ==
    /\ \A j, k \in 1..Len(opp.legs) :
          opp.legs[j].instrument_name = opp.legs[k].instrument_name => j = k
    /\ \A k \in 1..Len(opp.legs) : opp.legs[k].ratio \in Nat \ {0}

\* C27: for every opportunity produced from a snapshot whose instrument names
\* are pairwise distinct, the legs reference pairwise distinct instruments
\* and every leg ratio is a positive integer; a Box has four distinct legs
\* over two strikes K_low < K_high.
C27_DistinctLegs ==
    (phase = "scanned" /\ DistinctNames) =>
        \A opp \in Opps :
            /\ DistinctLegs(opp)
            /\ opp.strategy = "Box" =>
                  /\ Len(opp.legs) = 4
                  /\ Len(opp.strikes) = 2
                  /\ opp.strikes[1] < opp.strikes[2]

\* the kinds other than Box do keep their legs distinct
C27_DistinctLegsExceptBox ==
    (phase = "scanned" /\ DistinctNames) =>
        \A opp \in Opps : opp.strategy # "Box" => DistinctLegs(opp)

\* so does a Box when no two instruments share currency, expiry, settlement,
\* kind and strike
C27_DistinctLegsUniqueKeys ==
    (phase = "scanned" /\ DistinctNames /\ UniqueKeys) =>
        \A opp \in Opps :
            /\ DistinctLegs(opp)
            /\ opp.strategy = "Box" => opp.strikes[1] < opp.strikes[2]

\* a Box with one put in two legs, at a positive index
C27_BoxAtOneStrike ==
    /\ phase = "scanned"
    /\ DistinctNames
    /\ \E opp \in Opps :
          /\ opp.strategy = "Box"
          /\ opp.legs[3].instrument_name = opp.legs[4].instrument_name
          /\ \A k \in 1..Len(scan_input) : scan_input[k].quote.index_price = 10000

\* the ticket cap of the base leg, max_ticket_usd / (index x contract_size),
\* is at least min_depth_contracts, or there is no cap because the index is 0
CapAtLeastMinDepth(opp) ==
    LET base == InstNamed(opp.legs[1].instrument_name)
        notional_per_contract == base.quote.index_price * base.instrument.contract_size
    IN  \/ notional_per_contract = 0
        \/ DecimalDiv(config.max_ticket_usd * SizeDen, notional_per_contract)
              >= MinDepth(config)

\* a leg of ratio 2 (the middle of a butterfly) has a touch of at least
\* 2 x min_depth_contracts
DoubleLegsDeepEnough(opp) ==
    \A k \in 1..Len(opp.legs) :
        opp.legs[k].ratio = 2 =>
            Unwrap(TouchLevel(opp.legs[k])).amount >= 2 * MinDepth(config)

\* C29: every opportunity produced by scan has size_contracts >=
\* min_depth_contracts, so that ExecutionPlanner::plan under the same
\* configuration never rejects it for insufficient depth.
C29_SizeAtLeastMinDepth ==
    phase = "scanned" =>
        \A opp \in Opps :
            /\ opp.size_contracts >= MinDepth(config)
            /\ ~InsufficientDepth(opp, config)

\* C29, amended: every opportunity produced by scan has size_contracts >=
\* min_depth_contracts, and plan does not reject it for insufficient depth,
\* provided the ticket cap of its base leg is at least min_depth_contracts
\* and, for a Butterfly, the mid bid is at least 2 x min_depth_contracts.
C29_SizeAtLeastMinDepthUnlessCapped ==
    phase = "scanned" =>
        \A opp \in Opps :
            (CapAtLeastMinDepth(opp) /\ DoubleLegsDeepEnough(opp)) =>
                /\ opp.size_contracts >= MinDepth(config)
                /\ ~InsufficientDepth(opp, config)

\* an opportunity whose size is exactly min_depth_contracts = 2, under a
\* ticket cap of 2 contracts
C29_Witness ==
    /\ phase = "scanned"
    /\ config.min_depth_contracts = 2
    /\ \E opp \in Opps :
          /\ opp.reference_index > 0
          /\ CapAtLeastMinDepth(opp) /\ DoubleLegsDeepEnough(opp)
          /\ opp.size_contracts = MinDepth(config)

\* an opportunity the ticket cap sized below min_depth_contracts, and a
\* butterfly sized below it by half the mid bid
C29_BelowByTicket ==
    /\ phase = "scanned"
    /\ \E opp \in Opps : ~CapAtLeastMinDepth(opp) /\ InsufficientDepth(opp, config)

C29_BelowByHalfBid ==
    /\ phase = "scanned"
    /\ \E opp \in Opps :
          /\ opp.strategy = "Butterfly"
          /\ CapAtLeastMinDepth(opp)
          /\ InsufficientDepth(opp, config)

----------------------------------------------------------------------------
(* Two runs of scan on one snapshot *)

\* the readings of Utc::now()
Clock == {env[2] : env \in Environments}

\* detector.scan(&snapshot.instruments) once more, with the same snapshot and
\* configuration: is_daily_option reads Utc::now() again and every HashMap is
\* built anew, to be iterated in any order
Rescan ==
    /\ phase = "scanned"
    /\ \E now \in {n \in Clock : n >= utc_now} :
          /\ utc_now' = now
          /\ \E groups_order \in Orders(groups(config, now, scan_input)),
                calendar_order \in Orders(grouped(config, now, scan_input)),
                box_order \in Orders(box_groups(config, now, scan_input)),
                jelly_order \in Orders(buckets(config, now, scan_input)) :
                  opportunities' = scan(config, now, scan_input, groups_order,
                                        calendar_order, box_order, jelly_order)
    /\ previous' = Some([out |-> opportunities, now |-> utc_now])
    /\ phase' = "rescanned"
    /\ UNCHANGED <<scan_input, config, risk_vars, chain_vars, fee_vars, exec_vars, main>>

NextRescan == Scan \/ Rescan

SpecRescan == Init /\ [][NextRescan]_vars

\* C26: scans are referentially transparent: two runs of scan on the same
\* snapshot vector with the same configuration return the same sequence of
\* opportunities, the same elements with the same fees and edges in the same
\* order, ties in net_edge_usd included.
C26_ReferentiallyTransparent ==
    phase = "rescanned" => opportunities = Unwrap(previous).out

\* two runs at one reading of the clock return the same opportunities, in
\* some order
C26_SameElementsAtOneInstant ==
    (phase = "rescanned" /\ Unwrap(previous).now = utc_now) =>
        /\ Len(opportunities) = Len(Unwrap(previous).out)
        /\ Opps = {Unwrap(previous).out[k] : k \in 1..Len(Unwrap(previous).out)}

\* two runs at one reading of the clock differ: the order of a tie
C26_OrderDiffers ==
    /\ phase = "rescanned"
    /\ Unwrap(previous).now = utc_now
    /\ opportunities # Unwrap(previous).out

\* two runs differ in what they hold: the clock has moved
C26_ElementsDiffer ==
    /\ phase = "rescanned"
    /\ Opps # {Unwrap(previous).out[k] : k \in 1..Len(Unwrap(previous).out)}

----------------------------------------------------------------------------
(* main: the loop over the first opportunities, main.rs:93-115             *)
(*                                                                          *)
(* One task runs the loop; the RiskManager and the planner are locals of    *)
(* main, so approve and release run without contention.  plan runs as the   *)
(* planner's steps above, on the opportunity of the iteration.              *)

TakeLimit        == 3     \* opportunities.iter().take(3)
MaxOpportunities == 4     \* the longest scan result

MainOpportunity(size_contracts, notional_usd) ==
    [strategy |-> "Vertical", currency |-> "BTC", settlement |-> "Usdc",
     expiry |-> <<30>>, legs |-> PlanLegs, size_contracts |-> size_contracts,
     notional_usd |-> notional_usd,
     execution_plan |-> [create_payload |-> [legs |-> PlanLegs], dry_run |-> TRUE]]

\* one that passes the gate and the depth check, one too small for the
\* planner, one over the ticket
MainOpportunities ==
    { MainOpportunity(2 * SizeDen, 20000 * SizeDen),
      MainOpportunity(1, 10000),
      MainOpportunity(2 * SizeDen, 20000 * SizeDen + 1) }

\* main returns before the loop when the scan result is empty
ScanResults == UNION { [1..n -> MainOpportunities] : n \in 1..MaxOpportunities }

MainConfigs ==
    { [Config(20000, 0, 3, FALSE, AllStrategies, 1) EXCEPT !.max_concurrent_combos = n] :
        n \in 0..MaxCombos }

\* the opportunities the loop visits
Taken == Min(Len(opportunities), TakeLimit)

\* mutant: an error of plan leaves main, as `?` would
AfterPlanBailing(result) == IF result.ok THEN "release" ELSE "failed"

\* both arms of the match fall through to risk.release()
AfterPlan(result) == "release"

\* if !risk.approve(&config, opportunity) { continue; }
MainApprove ==
    /\ main.pc = "approve"
    /\ main.index <= Taken
    /\ IF \/ AtLimit(risk_state, config)
          \/ OverTicket(opportunities[main.index].notional_usd, config)
          \/ PnlNegative(risk_state)
       THEN /\ risk_state' = risk_state
            /\ main' = [main EXCEPT !.index = main.index + 1,
                                    !.log = Append(main.log, "refused")]
       ELSE /\ risk_state' = [risk_state EXCEPT !.live_combos = risk_state.live_combos + 1]
            /\ main' = [main EXCEPT !.pc = "plan", !.log = Append(main.log, "approved")]
    /\ UNCHANGED <<risk_mutex, rthreads, scan_vars, chain_vars, fee_vars, exec_vars>>

\* planner.plan(opportunity)
MainPlanCall ==
    /\ main.pc = "plan"
    /\ planner' = [pc |-> "plan:depth", opportunity |-> opportunities[main.index],
                   combo_id |-> None, preview |-> None, result |-> None,
                   calls |-> <<>>, history |-> planner.history]
    /\ main' = [main EXCEPT !.pc = "planning"]
    /\ UNCHANGED <<venue, scan_vars, risk_vars, chain_vars, fee_vars>>

\* the steps of plan
MainPlanStep ==
    /\ \/ PlanDepth
       \/ EnsureCombo
       \/ CreateComboOk
       \/ CreateComboErr
       \/ GetLegPricesOk
       \/ GetLegPricesErr
       \/ PlanReport
    /\ UNCHANGED <<main, scan_vars, risk_vars, chain_vars, fee_vars>>

\* match planner.plan(opportunity).await { Ok(report) => .., Err(err) => .. }
MainPlanReturn ==
    /\ main.pc = "planning"
    /\ PlanReturn
    /\ main' = [main EXCEPT !.pc = AfterPlan(Unwrap(planner.result)),
                            !.log = Append(main.log,
                                           IF Unwrap(planner.result).ok
                                           THEN "plan:ok" ELSE "plan:err")]
    /\ UNCHANGED <<scan_vars, risk_vars, chain_vars, fee_vars>>

\* risk.release(); the next iteration
MainRelease ==
    /\ main.pc = "release"
    /\ risk_state' = [risk_state EXCEPT
                        !.live_combos = IF risk_state.live_combos > 0
                                        THEN risk_state.live_combos - 1
                                        ELSE risk_state.live_combos]
    /\ main' = [main EXCEPT !.pc = "approve", !.index = main.index + 1,
                            !.log = Append(main.log, "release")]
    /\ UNCHANGED <<risk_mutex, rthreads, scan_vars, chain_vars, fee_vars, exec_vars>>

\* the iterator is exhausted: Ok(())
MainDone ==
    /\ main.pc = "approve"
    /\ main.index > Taken
    /\ main' = [main EXCEPT !.pc = "done"]
    /\ UNCHANGED <<scan_vars, risk_vars, chain_vars, fee_vars, exec_vars>>

InitMain ==
    /\ scan_input = <<>>
    /\ utc_now = 0
    /\ previous = None
    /\ phase = "scanned"
    /\ opportunities \in ScanResults
    /\ config \in MainConfigs
    /\ RiskIdle
    /\ ChainIdle
    /\ FeeIdle
    /\ planner = [pc |-> "idle", opportunity |-> opportunities[1], combo_id |-> None,
                  preview |-> None, result |-> None, calls |-> <<>>, history |-> <<>>]
    /\ venue = [combos |-> <<>>]
    /\ main = [pc |-> "approve", index |-> 1, log |-> <<>>]

NextMain ==
    \/ MainApprove
    \/ MainPlanCall
    \/ MainPlanStep
    \/ MainPlanReturn
    \/ MainRelease
    \/ MainDone

\* the runtime drives main's future, and every call of the venue returns
SpecMain == InitMain /\ [][NextMain]_vars /\ WF_vars(NextMain)

(* Claims about the loop *)

\* an approve has returned true and its release has not run yet
Pending == main.pc \in {"plan", "planning", "release"}

Approves == {k \in 1..Len(main.log) : main.log[k] \in {"approved", "refused"}}

\* what main has done so far: each approval is followed by one plan and one
\* release, nothing else releases, and an approve comes first or after a
\* release or a refusal
LoopDiscipline ==
    /\ \A k \in 1..Len(main.log) :
          /\ main.log[k] = "approved" =>
                /\ k + 1 <= Len(main.log) => main.log[k + 1] \in {"plan:ok", "plan:err"}
                /\ k + 2 <= Len(main.log) => main.log[k + 2] = "release"
          /\ main.log[k] = "release" => (k >= 3 /\ main.log[k - 2] = "approved")
          /\ (main.log[k] \in {"approved", "refused"} /\ k > 1) =>
                main.log[k - 1] \in {"release", "refused"}
    /\ risk_state.live_combos = IF Pending THEN 1 ELSE 0
    /\ main.pc \notin {"approve", "plan", "planning", "release"} =>
          /\ main.pc = "done"
          /\ Cardinality(Approves) = Taken
          /\ risk_state.live_combos = 0

\* C28: in the main scan loop every approve that returns true is followed by
\* exactly one release before the next approve, whether plan succeeds or
\* fails; a plan error does not stop the loop from processing the remaining
\* opportunities; live_combos never exceeds 1 during the loop and is 0 when
\* the loop ends.
C28_ApproveReleasePaired ==
    /\ []LoopDiscipline
    /\ [](Pending => <>(~Pending))
    /\ <>(main.pc = "done")

\* the loop has ended after a plan that failed and a later plan that did not,
\* leaving a fourth opportunity unvisited
C28_Witness ==
    /\ main.pc = "done"
    /\ Len(opportunities) > TakeLimit
    /\ \E j, k \in 1..Len(main.log) :
          j < k /\ main.log[j] = "plan:err" /\ main.log[k] = "plan:ok"

\* a refusal by the ticket cap, and a venue error, inside one loop
C28_RefusedAndFailed ==
    /\ main.pc = "done"
    /\ \E j, k \in 1..Len(main.log) :
          main.log[j] = "refused" /\ main.log[k] = "plan:err"
    /\ \E h \in 1..Len(planner.history) :
          \E c \in 1..Len(planner.history[h].calls) : ~planner.history[h].calls[c].ok

----------------------------------------------------------------------------
(* main: discovery, then one scan, main.rs:55-85 *)

\* what public/get_instruments answers for each configured currency, in
\* order; instrument names identify instruments, so a name that is listed
\* twice (a currency configured twice) comes with the same metadata
Listings ==
    { << <<UC100, CC100, UC110, CC200>> >>,
      << <<CC100, CC200, UC100>>, <<CC100, UC110>> >> }

TickerUnit(settlement) == IF settlement = "Usdc" THEN PriceDen ELSE 1

\* what public/ticker answers for an instrument
TickerQuotes(settlement) ==
    { Quote(Some(Level(4 * TickerUnit(settlement), MaxAmount)),
            Some(Level(5 * TickerUnit(settlement), MaxAmount)), 10000),
      Quote(Some(Level(8 * TickerUnit(settlement), MaxAmount)),
            Some(Level(9 * TickerUnit(settlement), MaxAmount)), 10000),
      Quote(None, Some(Level(5 * TickerUnit(settlement), MaxAmount)), 10000) }

\* --linears: any list over usdc and coin
DiscoveryConfigs ==
    { [settlements |-> linears] @@ Config(20000, 0, 3, FALSE, AllStrategies, 1) :
        linears \in SUBSET {"Usdc", "Coin"} }

\* mutant: every listed instrument is quoted
SettlementDisabledNever(instrument, cfg) == FALSE

\* the conditions of the two `continue`s of the instrument loop
SettlementDisabled(instrument, cfg) ==
    \/ instrument.settlement_currency = "Usdc" /\ "Usdc" \notin cfg.settlements
    \/ instrument.settlement_currency = "Coin" /\ "Coin" \notin cfg.settlements

\* let instruments = http_client.get_instruments(&currency.to_string()).await?;
DiscoverInstrumentsOk ==
    /\ main.pc = "instruments"
    /\ main.currencies # <<>>
    /\ main' = [main EXCEPT !.pc = "upsert", !.instruments = Head(main.currencies),
                            !.currencies = Tail(main.currencies)]
    /\ UNCHANGED <<scan_vars, risk_vars, chain_vars, fee_vars, exec_vars>>

\* the `?` after get_instruments and after get_ticker: main returns the error
DiscoverErr ==
    /\ \/ main.pc = "instruments" /\ main.currencies # <<>>
       \/ main.pc = "ticker"
    /\ main' = [main EXCEPT !.pc = "failed"]
    /\ UNCHANGED <<scan_vars, risk_vars, chain_vars, fee_vars, exec_vars>>

\* chain.upsert_instrument(instrument.clone()); then the settlement tests.
\* main is the only writer of the chain, the stats task only reads it
DiscoverUpsert ==
    /\ main.pc = "upsert"
    /\ main.instruments # <<>>
    /\ inner' = upsert_instrument(inner, Head(main.instruments))
    /\ main' = IF SettlementDisabled(Head(main.instruments), config)
               THEN [main EXCEPT !.instruments = Tail(main.instruments)]
               ELSE [main EXCEPT !.pc = "ticker"]
    /\ UNCHANGED <<scan_vars, risk_vars, rwlock, cthreads, chist, fee_vars, exec_vars>>

\* let quote = http_client.get_ticker(..).await?; chain.update_quote(name, quote);
DiscoverTickerOk ==
    /\ main.pc = "ticker"
    /\ \E quote \in TickerQuotes(Head(main.instruments).settlement_currency) :
          inner' = update_quote(inner, Head(main.instruments).instrument_name, quote)
    /\ main' = [main EXCEPT !.pc = "upsert", !.instruments = Tail(main.instruments)]
    /\ UNCHANGED <<scan_vars, risk_vars, rwlock, cthreads, chist, fee_vars, exec_vars>>

\* the inner loop is over: the next currency
DiscoverNextCurrency ==
    /\ main.pc = "upsert"
    /\ main.instruments = <<>>
    /\ main' = [main EXCEPT !.pc = "instruments"]
    /\ UNCHANGED <<scan_vars, risk_vars, chain_vars, fee_vars, exec_vars>>

\* let snapshot = chain.snapshot(); the values of the HashMap in any order
DiscoverSnapshot ==
    /\ main.pc = "instruments"
    /\ main.currencies = <<>>
    /\ \E order \in Orders(DOMAIN inner) :
          scan_input' = [k \in 1..Cardinality(DOMAIN inner) |-> inner[order[k]]]
    /\ phase' = "ready"
    /\ main' = [main EXCEPT !.pc = "scan"]
    /\ UNCHANGED <<config, utc_now, opportunities, previous, risk_vars, chain_vars, fee_vars, exec_vars>>

\* let opportunities = detector.scan(&snapshot.instruments);
DiscoverScan ==
    /\ main.pc = "scan"
    /\ Scan

InitDiscovery ==
    /\ scan_input = <<>>
    /\ utc_now = 0
    /\ opportunities = <<>>
    /\ phase = "discovering"
    /\ previous = None
    /\ config \in DiscoveryConfigs
    /\ \E listing \in Listings :
          main = [pc |-> "instruments", currencies |-> listing, instruments |-> <<>>]
    /\ RiskIdle
    /\ ChainIdle
    /\ FeeIdle
    /\ ExecIdle

NextDiscovery ==
    \/ DiscoverInstrumentsOk
    \/ DiscoverErr
    \/ DiscoverUpsert
    \/ DiscoverTickerOk
    \/ DiscoverNextCurrency
    \/ DiscoverSnapshot
    \/ DiscoverScan

SpecDiscovery == InitDiscovery /\ [][NextDiscovery]_vars

(* Claims about discovery *)

\* the entries of the chain whose settlement is not enabled
DisabledEntries ==
    {n \in DOMAIN inner : inner[n].instrument.settlement_currency \notin config.settlements}

\* C30: in the discovery-then-scan flow of main an instrument whose settlement
\* is not among the enabled settlements is upserted but never quoted: it keeps
\* its empty quote, it is a leg of no opportunity of the scan that follows, and
\* every opportunity has a settlement that is enabled.
C30_OnlyEnabledSettlements ==
    /\ \A n \in DisabledEntries : inner[n].quote = EmptyQuote
    /\ phase = "scanned" =>
          \A opp \in Opps :
              /\ opp.settlement \in config.settlements
              /\ \A k \in 1..Len(opp.legs) :
                    /\ opp.legs[k].instrument_name \notin DisabledEntries
                    /\ InstNamed(opp.legs[k].instrument_name).quote # EmptyQuote

\* a scan that returns a vertical of the enabled settlement while both legs of
\* a vertical of the other settlement are in the snapshot, unquoted
C30_Witness ==
    /\ phase = "scanned"
    /\ opportunities # <<>>
    /\ \E a, b \in DisabledEntries :
          /\ a # b
          /\ \E x, y \in Insts :
                /\ x.instrument.instrument_name = a
                /\ y.instrument.instrument_name = b
                /\ x.quote = EmptyQuote
                /\ y.quote = EmptyQuote

====
